---- MODULE Spec2Model ----
(***************************************************************************)
(* A model of the image acquisition pipeline of the Bing Creator image     *)
(* downloader: the fallback download of every item over its candidate URLs *)
(* (models/image_download.py) and the retry-and-merge resolution of the    *)
(* item details (strategies/file_image_source_strategy.py).                *)
(*                                                                         *)
(* asyncio runs the tasks cooperatively: a task runs without interruption  *)
(* until it waits for the network.  One action of the model is therefore   *)
(* the stretch of a task between two network waits.                        *)
(***************************************************************************)
EXTENDS Integers, Sequences, FiniteSets, TLC

(***************************************************************************)
(* Bounds of the model.                                                    *)
(***************************************************************************)
\* number of items downloaded concurrently by one gather
MaxItems == 2
\* length of the candidate list of an item in the concurrent download
MaxGatherCandidates == 2
\* longest candidate list of the single item of SpecItem
MaxCandidates == 3
\* longest identifier list handed to the bulk resolver
MaxIds == 2
\* largest configured detail_api.max_attempts
MaxAttempts == 3

\* the most lines of the file, the most items of the listing, of a whole run
MaxRunItems == 2

\* the largest detail_max_attempts of a whole run
MaxRunAttempts == 2

\* the most detail tasks of one round beyond the permits of the semaphore
MaxExtraTasks == 2
MaxPackItems == 2
MaxFailures == 9
\* the most lines or items of a listing whose run may have the deletion on
MaxDeletionRunItems == 1

\* how far from the deletion limit the item count of a finished run may lie
MaxCapSlack == 1

MaxRecords == 2

(***************************************************************************)
(* Python's None, for the fields that hold strings or objects, and for     *)
(* Image.status_code, which holds an integer once a response was seen.     *)
(***************************************************************************)
None == "None"
NoStatus == 0

\* the pixel width below which a downloaded file counts as a thumbnail
ThumbnailWidthLimit == 1024

\* Semaphore(250), the limiter of the detail requests
SemaphoreCapacity == 250

(***************************************************************************)
(* The environment: what a server answers to the (retrying) GET of a URL.  *)
(* A URL is named after the answer it always gives.                        *)
(*   u_jpeg     200 image/jpeg, a full size picture                        *)
(*   u_thumb    200 image/jpeg, a picture narrower than 1024 pixels        *)
(*   u_corrupt  200 image/jpeg, a body PIL cannot open                     *)
(*   u_noexif   200 image/jpeg, a picture piexif cannot load               *)
(*   u_png      200 image/png                                              *)
(*   u_html     200 text/html                                              *)
(*   u_404      404                                                        *)
(*   u_500      500                                                        *)
(*   u_raise    no response: the retry client raises (timeout, reset)      *)
(***************************************************************************)
AllUrls ==
    {"u_jpeg", "u_thumb", "u_corrupt", "u_noexif", "u_png", "u_html",
     "u_404", "u_500", "u_raise"}

\* the URLs the items of the concurrent download are drawn from
GatherUrls == {"u_jpeg", "u_404", "u_raise"}

GetRaises(url) == url = "u_raise"

ResponseStatus(url) ==
    CASE url = "u_404" -> 404
      [] url = "u_500" -> 500
      [] OTHER -> 200

ResponseContentType(url) ==
    CASE url \in {"u_jpeg", "u_thumb", "u_corrupt", "u_noexif"} -> "image/jpeg"
      [] url = "u_png" -> "image/png"
      [] OTHER -> "text/html"

ResponseReason(url) ==
    CASE url = "u_404" -> "Not Found"
      [] url = "u_500" -> "Internal Server Error"
      [] OTHER -> "OK"

\* PIL_Image.open(BytesIO(image_bytes)) succeeds
BodyDecodes(url) == url \in {"u_jpeg", "u_thumb", "u_noexif", "u_png"}

\* pil_image.width
BodyWidth(url) ==
    IF url = "u_thumb" THEN ThumbnailWidthLimit - 1 ELSE ThumbnailWidthLimit

\* ImageUtility.add_exif_metadata(image) succeeds
ExifEmbeds(url) == url \in {"u_jpeg", "u_thumb"}

\* the content types that name an image payload
IsImageContentType(content_type) == content_type \in {"image/jpeg", "image/png"}

(***************************************************************************)
(* models/image.py: the item.                                              *)
(***************************************************************************)
NewImage(image_urls, index, page_url) ==
    [image_urls      |-> image_urls,
     index           |-> index,
     page_url        |-> page_url,
     collection_name |-> "Collection",
     collection_id   |-> None,
     date_modified   |-> None,
     creation_date   |-> None,
     used_image_url |-> None,
     file_name      |-> None,
     is_thumbnail   |-> FALSE,
     is_success     |-> FALSE,
     status_code    |-> NoStatus,
     reason         |-> None,
     attempts       |-> 0]

\* the i-th candidate URL of an item: image_urls holds (priority, url) pairs
CandidateUrl(image, i) == image.image_urls[i][2]

\* f"{temp_dir}{os.sep}{file_name_formatted}.jpg", with the '_T' of a thumbnail
FileName(image, is_thumbnail) ==
    IF is_thumbnail THEN "image_T.jpg" ELSE "image.jpg"

(***************************************************************************)
(* models/image_download.py, __download_and_save_image: one turn of the    *)
(* loop over image.image_urls, from the answer to the GET of `url` to the  *)
(* end of the turn.  outcome is "return" (line 129), "next" (the turn ends *)
(* at line 137) or "raise" (an exception leaves the loop).                 *)
(***************************************************************************)
\* line 95
ResponseAccepted_StatusOnly(status, content_type) == status = 200

ResponseAccepted(status, content_type) ==
    status = 200 /\ content_type = "image/jpeg"

\* line 94
CountAttempt_Assign(image) == [image EXCEPT !.attempts = 1]

CountAttempt(image) == [image EXCEPT !.attempts = @ + 1]

\* line 129: the walk ends with the first candidate saved
SavedOutcome_NoReturn == "next"

SavedOutcome == "return"

\* lines 136-137: the rejected answer is recorded, over what an earlier one left
RecordRejected_FirstOnly(image, url) ==
    IF image.status_code # NoStatus
    THEN image
    ELSE [image EXCEPT !.status_code = ResponseStatus(url),
                       !.reason = ResponseReason(url)]

RecordRejected(image, url) ==
    [image EXCEPT !.status_code = ResponseStatus(url),
                  !.reason = ResponseReason(url)]

\* the loop with the item's flag set anew in every turn and never left early
HandleResponse_Recompute(image, url) ==
    IF GetRaises(url)
    THEN [image |-> image, outcome |-> "raise"]
    ELSE [image |-> [image EXCEPT
                        !.attempts = @ + 1,
                        !.is_success = ResponseAccepted(ResponseStatus(url),
                                                        ResponseContentType(url)),
                        !.status_code = ResponseStatus(url),
                        !.reason = ResponseReason(url)],
          outcome |-> "next"]

HandleResponse(image, url) ==
    IF GetRaises(url)
    THEN [image |-> image, outcome |-> "raise"]
    ELSE
      LET counted == CountAttempt(image)
      IN  IF ResponseAccepted(ResponseStatus(url), ResponseContentType(url))
          THEN
            IF ~BodyDecodes(url)
            THEN [image |-> counted, outcome |-> "raise"]
            ELSE
              LET thumb == BodyWidth(url) < ThumbnailWidthLimit
                  sized == [counted EXCEPT !.is_thumbnail = IF thumb THEN TRUE ELSE @]
                  saved == [sized EXCEPT !.used_image_url = url,
                                         !.file_name = FileName(image, thumb)]
              IN  IF ~ExifEmbeds(url)
                  THEN [image |-> saved, outcome |-> "raise"]
                  ELSE [image |-> [saved EXCEPT !.is_success = TRUE,
                                                !.status_code = ResponseStatus(url),
                                                !.reason = ResponseReason(url)],
                        outcome |-> SavedOutcome]
          ELSE [image |-> RecordRejected(counted, url), outcome |-> "next"]

\* lines 139-143: `except Exception` catches whatever the walk raises
ExceptionCaught_Escapes == FALSE

ExceptionCaught == TRUE

(***************************************************************************)
(* The whole walk of one item, run alone from candidate `i` on.            *)
(***************************************************************************)
RECURSIVE WalkFrom(_, _)
WalkFrom(image, i) ==
    IF i > Len(image.image_urls)
    THEN image
    ELSE LET r == HandleResponse(image, CandidateUrl(image, i))
         IN  IF r.outcome = "next" THEN WalkFrom(r.image, i + 1) ELSE r.image

DownloadAlone(image) == WalkFrom(image, 1)

(***************************************************************************)
(* State.                                                                  *)
(***************************************************************************)
VARIABLES
    images,                  \* ImageDownload.__images
    total_image_count,
    successful_image_count,
    dl_phase,                \* "downloading", "gathered" or "crashed"
    dl_pc,                   \* per task: "created", "awaiting", "done", "cancelled"
    dl_pos,                  \* per task: the turn of the loop it is in
    requested,               \* per task: the URLs it has requested, in order
    image_id_list,           \* get_image_data_retry: the identifiers
    detail_max_attempts,     \* Config().detail_max_attempts()
    br_pc,                   \* "idle", "gathering", "returned" or "raised"
    attempts_made,           \* get_image_data_retry: the rounds completed
    current_images,          \* get_image_data_retry: the merged results
    task_pc,                 \* per get_image_data task of the round
    task_result,             \* per get_image_data task: what it returned
    completed,               \* the tasks of the round in the order they returned
    permits,                 \* the free permits of the semaphore
    ever_resolved,           \* the positions some completed round has resolved
    detail_calls,            \* the detail requests sent since the first round
    merge_inputs_kept,       \* no merge has changed a list it read
    strategy,                \* Config().image_source_method: "file" or "api"
    run_pc,                  \* ImageDownload.run: "listing", "resolving",
                             \* "downloading", "done" or "crashed"
    listing,                 \* what the listing step reads: the file, the API answer
    archive,                 \* the entries written to the zip file
    statistics,              \* detailed_statistics.md, <<>> while not written
    delete_toggle,           \* Config().delete_collection_after_download_toggle
    delete_mode,             \* Config().delete_collection_after_download_mode
    deletion_requests,       \* the collection ids of every deletion POST sent
    deletion_warnings,       \* the warnings __delete_collection has logged
    ex_client,               \* one request through a retry client: who sends it,
    ex_image_id,             \* the image id of its URL,
    ex_server,               \* what the server does call after call,
    ex_calls,                \* the calls made and answered,
    ex_pc,                   \* "idle", "calling", "returned" or "raised",
    ex_response,             \* the last response,
    ex_result,               \* what the sender made of the response surfaced
    crowd_size,              \* a round of detail tasks told apart only by their
    crowd_created,           \* state: how many there are, how many wait for a
    crowd_in_flight          \* permit, how many hold one

dl_vars ==
    <<images, total_image_count, successful_image_count, dl_phase, dl_pc,
      dl_pos, requested>>

br_vars ==
    <<image_id_list, detail_max_attempts, br_pc, attempts_made, current_images,
      task_pc, task_result, completed, permits, ever_resolved, detail_calls,
      merge_inputs_kept>>

\* one request through a retry client
ex_vars ==
    <<ex_client, ex_image_id, ex_server, ex_calls, ex_pc, ex_response, ex_result>>

\* what a run reads and writes besides its position
run_io ==
    <<strategy, listing, archive, statistics, delete_toggle, delete_mode,
      deletion_requests, deletion_warnings, ex_vars>>

run_vars == <<run_pc, run_io>>

crowd_vars == <<crowd_size, crowd_created, crowd_in_flight>>

vars == <<dl_vars, br_vars, run_vars, crowd_vars>>

Items == DOMAIN images

\* candidate lists of 1..n entries over a set of URLs, priorities ascending
CandidateLists(urls, n) ==
    UNION {[1..k -> urls] : k \in 1..n}

WithPriority(list) == [k \in DOMAIN list |-> <<k, list[k]>>]

(***************************************************************************)
(* __download_and_zip_images, lines 58-63: the tasks are created.          *)
(***************************************************************************)
DownloadInit(lists) ==
    /\ images = [i \in DOMAIN lists |-> NewImage(WithPriority(lists[i]), i, "page")]
    /\ total_image_count = Len(lists)
    /\ successful_image_count = 0
    /\ dl_phase = "downloading"
    /\ dl_pc = [i \in DOMAIN lists |-> "created"]
    /\ dl_pos = [i \in DOMAIN lists |-> 1]
    /\ requested = [i \in DOMAIN lists |-> <<>>]

\* a response: its status and its JSON body, which is null, an object
\* without 'value', an object whose 'value' is null, or an object whose
\* 'value' is an array of records
Response(status, kind, value) ==
    [status |-> status, body |-> [kind |-> kind, value |-> value]]

NoResponse == Response(NoStatus, "none", <<>>)

NoRecord == [imageId |-> None, contentUrl |-> None]

\* no single request is watched
ExchangeIdle ==
    /\ ex_client = "none"
    /\ ex_image_id = None
    /\ ex_server = [fails |-> 0, then |-> NoResponse]
    /\ ex_calls = 0
    /\ ex_pc = "idle"
    /\ ex_response = NoResponse
    /\ ex_result = [kind |-> "none", record |-> NoRecord]

\* delete_collection_after_download: the toggle off, or on with a mode
DeletionModes == {"safest", "safeish", "dangerous", "never"}

\* the collections are kept: the toggle of the configuration is off
DeletionOff ==
    /\ delete_toggle = FALSE
    /\ delete_mode = "safest"
    /\ deletion_requests = <<>>
    /\ deletion_warnings = <<>>

\* no crowd of detail tasks is watched
CrowdIdle ==
    /\ crowd_size = 0
    /\ crowd_created = 0
    /\ crowd_in_flight = 0

\* the run is in one phase of the file strategy, nothing is packed yet
RunIn(phase) ==
    /\ strategy = "file"
    /\ run_pc = phase
    /\ listing = [exists |-> TRUE, lines |-> <<>>]
    /\ archive = {}
    /\ statistics = <<>>
    /\ DeletionOff
    /\ ExchangeIdle
    /\ CrowdIdle

\* no detail resolution is running
ResolverIdle ==
    /\ image_id_list = <<>>
    /\ detail_max_attempts = 0
    /\ br_pc = "idle"
    /\ attempts_made = 0
    /\ current_images = <<>>
    /\ task_pc = <<>>
    /\ task_result = <<>>
    /\ completed = <<>>
    /\ permits = SemaphoreCapacity
    /\ ever_resolved = {}
    /\ detail_calls = 0
    /\ merge_inputs_kept = TRUE

\* one item, any answer of the servers
InitItem ==
    /\ ResolverIdle
    /\ RunIn("downloading")
    /\ \E list \in CandidateLists(AllUrls, MaxCandidates) :
           DownloadInit(<<list>>)

\* the gather of several items
InitGather ==
    /\ ResolverIdle
    /\ RunIn("downloading")
    /\ \E lists \in [1..MaxItems -> [1..MaxGatherCandidates -> GatherUrls]] :
           DownloadInit(lists)

(***************************************************************************)
(* __download_and_save_image, lines 89-92: the task opens its session and  *)
(* sends the GET of its first candidate.                                   *)
(***************************************************************************)
StartTask(i) ==
    /\ dl_phase = "downloading"
    /\ dl_pc[i] = "created"
    /\ IF Len(images[i].image_urls) = 0
       THEN /\ dl_pc' = [dl_pc EXCEPT ![i] = "done"]
            /\ requested' = requested
       ELSE /\ dl_pc' = [dl_pc EXCEPT ![i] = "awaiting"]
            /\ requested' = [requested EXCEPT ![i] = Append(@, CandidateUrl(images[i], 1))]
    /\ UNCHANGED <<images, total_image_count, successful_image_count, dl_phase, dl_pos>>
    /\ UNCHANGED br_vars
    /\ UNCHANGED <<run_vars, crowd_vars>>

(***************************************************************************)
(* Lines 92-137: the answer to the pending GET arrives and is rejected;    *)
(* the loop goes on to the next candidate and sends its GET, or ends after *)
(* the last one (line 138).                                                *)
(***************************************************************************)
ResponseRejected(i) ==
    /\ dl_phase = "downloading"
    /\ dl_pc[i] = "awaiting"
    /\ LET r == HandleResponse(images[i], CandidateUrl(images[i], dl_pos[i]))
       IN  /\ r.outcome = "next"
           /\ images' = [images EXCEPT ![i] = r.image]
           /\ IF dl_pos[i] < Len(images[i].image_urls)
              THEN /\ dl_pos' = [dl_pos EXCEPT ![i] = @ + 1]
                   /\ requested' = [requested EXCEPT
                          ![i] = Append(@, CandidateUrl(images[i], dl_pos[i] + 1))]
                   /\ dl_pc' = dl_pc
              ELSE /\ dl_pc' = [dl_pc EXCEPT ![i] = "done"]
                   /\ UNCHANGED <<dl_pos, requested>>
    /\ UNCHANGED <<total_image_count, successful_image_count, dl_phase>>
    /\ UNCHANGED br_vars
    /\ UNCHANGED <<run_vars, crowd_vars>>

(***************************************************************************)
(* Lines 95-129: the answer is accepted, the file saved, the item marked.  *)
(***************************************************************************)
ResponseSaved(i) ==
    /\ dl_phase = "downloading"
    /\ dl_pc[i] = "awaiting"
    /\ LET r == HandleResponse(images[i], CandidateUrl(images[i], dl_pos[i]))
       IN  /\ r.outcome = "return"
           /\ images' = [images EXCEPT ![i] = r.image]
    /\ dl_pc' = [dl_pc EXCEPT ![i] = "done"]
    /\ UNCHANGED <<total_image_count, successful_image_count, dl_phase, dl_pos, requested>>
    /\ UNCHANGED br_vars
    /\ UNCHANGED <<run_vars, crowd_vars>>

(***************************************************************************)
(* Lines 139-143: the GET, the decoding or the embedding raised.  The      *)
(* handler of the task logs the exception and the task ends; an exception  *)
(* that left the task would reach asyncio.gather (line 63) and the run     *)
(* would end with the sibling tasks cancelled.                             *)
(***************************************************************************)
ResponseRaised(i) ==
    /\ dl_phase = "downloading"
    /\ dl_pc[i] = "awaiting"
    /\ LET r == HandleResponse(images[i], CandidateUrl(images[i], dl_pos[i]))
       IN  /\ r.outcome = "raise"
           /\ images' = [images EXCEPT ![i] = r.image]
    /\ IF ExceptionCaught
       THEN /\ dl_pc' = [dl_pc EXCEPT ![i] = "done"]
            /\ dl_phase' = dl_phase
       ELSE /\ dl_pc' = [j \in DOMAIN dl_pc |->
                            IF j = i \/ dl_pc[j] = "done" THEN "done" ELSE "cancelled"]
            /\ dl_phase' = "crashed"
    /\ UNCHANGED <<total_image_count, successful_image_count, dl_pos, requested>>
    /\ UNCHANGED br_vars
    /\ UNCHANGED <<run_vars, crowd_vars>>

(***************************************************************************)
(* __download_and_zip_images, lines 63-65: every task has ended.           *)
(***************************************************************************)
\* line 64
SuccessfulImages_All(imgs) == DOMAIN imgs

SuccessfulImages(imgs) == {i \in DOMAIN imgs : imgs[i].is_success}

\* `await asyncio.gather(*tasks)` goes on when every task has returned
AllFinished_AnyOne(pc) == \E k \in DOMAIN pc : pc[k] = "done"

AllFinished(pc) == \A k \in DOMAIN pc : pc[k] = "done"

GatherReturns ==
    /\ dl_phase = "downloading"
    /\ AllFinished(dl_pc)
    /\ dl_phase' = "gathered"
    /\ successful_image_count' = Cardinality(SuccessfulImages(images))
    /\ UNCHANGED <<images, total_image_count, dl_pc, dl_pos, requested>>
    /\ UNCHANGED br_vars
    /\ UNCHANGED <<run_vars, crowd_vars>>

TaskStep(i) ==
    \/ StartTask(i)
    \/ ResponseRejected(i)
    \/ ResponseSaved(i)
    \/ ResponseRaised(i)

NextDownload ==
    \/ \E i \in Items : StartTask(i)
    \/ \E i \in Items : ResponseRejected(i)
    \/ \E i \in Items : ResponseSaved(i)
    \/ \E i \in Items : ResponseRaised(i)
    \/ GatherReturns

\* the concurrent download of MaxItems items
Spec == InitGather /\ [][NextDownload]_vars

\* the download of one item, over every answer a server can give
SpecItem == InitItem /\ [][NextDownload]_vars

(***************************************************************************)
(* strategies/file_image_source_strategy.py: the bulk resolver.            *)
(*                                                                         *)
(* A value that may be None is a sequence: <<>> is None, <<x>> is x.       *)
(***************************************************************************)
NoneValue == <<>>

\* the identifiers ItemIdentifier extracts from the lines of the file
IdPool == {"idA", "idB"}

\* the lines of images_clipboard.txt and the page URLs of the API: a result
\* page of idA, one of idB, a Bing create URL without identifiers, and a line
\* that is no Bing create URL
UrlPool == {"url_idA", "url_idB", "url_bad", "other"}

\* file_image_source_strategy.py, line 106: line.startswith(...)
StartsWithCreate(url) == url # "other"

\* utilities/image_utility.py, extract_set_and_image_id, line 30: re.search
\* finds the pattern; where it does not, line 31 raises AttributeError
PatternMatches(url) == url \in {"url_idA", "url_idB"}

\* lines 31-34, for a URL the pattern matches
ExtractSetAndImageId(url) == IF url = "url_idA" THEN "idA" ELSE "idB"

\* what the detail service sends for one request: a 200 with a `value`
\* array, a 200 without one, another status, or nothing (the GET raises)
DetailAnswers == {"value", "no_value", "non_200", "raise"}

\* the contentUrl the service names in a record
DetailContentUrls == {"u_jpeg", "u_404"}

\* the record the service holds for an identifier
DetailRecord(image_id, content_url) ==
    [contentUrl    |-> content_url,
     thumbnailUrl  |-> "u_thumb",
     hostPageUrl   |-> image_id,
     datePublished |-> "published"]

\* dateutil_parser.parse(s).astimezone(timezone.utc).strftime('%Y-%m-%dT%H%MZ'):
\* the instant the string names, written in UTC
FormatUtc(date_string) ==
    CASE date_string = "published" -> "published@utc"
      [] date_string = "modified"  -> "modified@utc"
      [] OTHER                     -> "today@utc"

\* dateutil_parser.parse(s).astimezone().strftime('%Y-%m-%dT%H%M%z'): the
\* instant written in the time zone of the machine, with its offset
FormatLocal(date_string) ==
    CASE date_string = "published" -> "published@local"
      [] date_string = "modified"  -> "modified@local"
      [] OTHER                     -> "today@local"

\* date.today().isoformat()
Today == "today"

\* utilities/image_utility.py, get_detail_image, lines 89-100
GetDetailImage(image_id, answer, content_url) ==
    IF answer = "value"
    THEN <<DetailRecord(image_id, content_url)>>
    ELSE NoneValue

\* get_image_data, lines 78-100; `index` is the position in the list, from 1
GetImageData(image_id, index, answer, content_url) ==
    LET detail_image == GetDetailImage(image_id, answer, content_url)
    IN  IF detail_image # NoneValue
        THEN <<[NewImage(<<<<1, detail_image[1].contentUrl>>,
                           <<2, detail_image[1].thumbnailUrl>>>>,
                         index,
                         detail_image[1].hostPageUrl)
                 EXCEPT !.creation_date = FormatUtc(detail_image[1].datePublished)]>>
        ELSE NoneValue

\* gather_images, lines 61-67: asyncio.gather lists the results by task
GatherResults_CompletionOrder(results, order) ==
    [k \in 1..Len(order) |-> results[order[k]]]

GatherResults(results, order) ==
    [k \in 1..Len(results) |-> results[k]]

\* get_image_data_retry, lines 44-49: map() over both lists
ShorterLen(a, b) == IF Len(a) < Len(b) THEN Len(a) ELSE Len(b)

Merge_LatestWins(current, new) ==
    [k \in 1..ShorterLen(current, new) |->
        IF new[k] # NoneValue THEN new[k] ELSE current[k]]

Merge(current, new) ==
    [k \in 1..ShorterLen(current, new) |->
        IF current[k] # NoneValue THEN current[k] ELSE new[k]]

HasNone(list) == \E k \in DOMAIN list : list[k] = NoneValue

\* get_image_data_retry, line 40
LoopContinues_OffByOne(list, made, attempts) ==
    HasNone(list) /\ made <= attempts

LoopContinues(list, made, attempts) ==
    HasNone(list) /\ made < attempts

\* gather_images, lines 61-65: one task for every identifier of the list,
\* whatever `merged` holds at its position
TasksOfRound_OnlyUnresolved(n, merged) ==
    [k \in 1..n |->
        IF k \in DOMAIN merged /\ merged[k] # NoneValue THEN "done" ELSE "created"]

TasksOfRound(n, merged) == [k \in 1..n |-> "created"]

\* the tasks of one round, as gather_images creates them
NewRound(n) ==
    /\ task_pc' = TasksOfRound(n, current_images')
    /\ task_result' = [k \in 1..n |-> NoneValue]
    /\ completed' = <<>>

(***************************************************************************)
(* get_images, lines 22-24, and get_image_data_retry, line 38: the         *)
(* identifiers are read and the tasks of the first round created.          *)
(***************************************************************************)
DownloadIdle ==
    /\ images = <<>>
    /\ total_image_count = 0
    /\ successful_image_count = 0
    /\ dl_phase = "idle"
    /\ dl_pc = <<>>
    /\ dl_pos = <<>>
    /\ requested = <<>>

InitResolve ==
    /\ DownloadIdle
    /\ RunIn("resolving")
    /\ image_id_list \in UNION {[1..n -> IdPool] : n \in 0..MaxIds}
    /\ detail_max_attempts \in 0..MaxAttempts
    /\ br_pc = "gathering"
    /\ attempts_made = 0
    /\ current_images = <<>>
    /\ task_pc = [k \in DOMAIN image_id_list |-> "created"]
    /\ task_result = [k \in DOMAIN image_id_list |-> NoneValue]
    /\ completed = <<>>
    /\ permits = SemaphoreCapacity
    /\ ever_resolved = {}
    /\ detail_calls = 0
    /\ merge_inputs_kept = TRUE

(***************************************************************************)
(* get_detail_image, lines 84-89: the task takes a permit and sends its    *)
(* GET; it waits while no permit is free.                                  *)
(***************************************************************************)
CanAcquire_NoLimit(free) == TRUE

\* `async with semaphore:` enters while a permit is free
CanAcquire(free) == free > 0

TaskAcquires(k) ==
    /\ br_pc = "gathering"
    /\ task_pc[k] = "created"
    /\ strategy = "api" => PatternMatches(images[k].page_url)
    /\ CanAcquire(permits)
    /\ permits' = permits - 1
    /\ task_pc' = [task_pc EXCEPT ![k] = "in_flight"]
    /\ detail_calls' = detail_calls + 1
    /\ UNCHANGED <<image_id_list, detail_max_attempts, br_pc, attempts_made,
                   current_images, task_result, completed, ever_resolved,
                   merge_inputs_kept>>
    /\ UNCHANGED dl_vars
    /\ UNCHANGED <<run_vars, crowd_vars>>

(***************************************************************************)
(* get_detail_image, lines 89-100, and get_image_data, lines 81-100: the   *)
(* answer arrives, the permit is returned, the task returns an Image or    *)
(* None.                                                                   *)
(***************************************************************************)
TaskReturns(k) ==
    /\ strategy = "file"
    /\ br_pc = "gathering"
    /\ task_pc[k] = "in_flight"
    /\ \E answer \in DetailAnswers \ {"raise"}, content_url \in DetailContentUrls :
           /\ answer # "value" => content_url = "u_jpeg"
           /\ task_result' = [task_result EXCEPT
                  ![k] = GetImageData(image_id_list[k], k, answer, content_url)]
    /\ permits' = permits + 1
    /\ task_pc' = [task_pc EXCEPT ![k] = "done"]
    /\ completed' = Append(completed, k)
    /\ UNCHANGED <<image_id_list, detail_max_attempts, br_pc, attempts_made,
                   current_images, ever_resolved,
                   detail_calls, merge_inputs_kept>>
    /\ UNCHANGED dl_vars
    /\ UNCHANGED <<run_vars, crowd_vars>>

\* `async with semaphore` (image_utility.py, line 89): the free permits once
\* an exception has left the block
ReleasedOnRaise_Kept(free) == free

ReleasedOnRaise(free) == free + 1

(***************************************************************************)
(* The GET raises.  Nothing between get_detail_image and get_images        *)
(* catches: the permit is returned, asyncio.gather (line 66) hands the     *)
(* exception to get_image_data_retry, which ends with it.                  *)
(***************************************************************************)
TaskRaises(k) ==
    /\ br_pc = "gathering"
    /\ task_pc[k] = "in_flight"
    /\ permits' = ReleasedOnRaise(permits)
    /\ task_pc' = [task_pc EXCEPT ![k] = "raised"]
    /\ br_pc' = "raised"
    /\ UNCHANGED <<image_id_list, detail_max_attempts, attempts_made,
                   current_images, task_result, completed, ever_resolved,
                   detail_calls, merge_inputs_kept>>
    /\ UNCHANGED dl_vars
    /\ UNCHANGED <<run_vars, crowd_vars>>

(***************************************************************************)
(* When the run ends with the exception, the tasks still pending are       *)
(* cancelled; one that holds a permit returns it.                          *)
(***************************************************************************)
TaskCancelled(k) ==
    /\ br_pc = "raised"
    /\ task_pc[k] \in {"created", "in_flight"}
    /\ permits' = IF task_pc[k] = "in_flight" THEN ReleasedOnRaise(permits) ELSE permits
    /\ task_pc' = [task_pc EXCEPT ![k] = "cancelled"]
    /\ UNCHANGED <<image_id_list, detail_max_attempts, br_pc, attempts_made,
                   current_images, task_result, completed, ever_resolved,
                   detail_calls, merge_inputs_kept>>
    /\ UNCHANGED dl_vars
    /\ UNCHANGED <<run_vars, crowd_vars>>

(***************************************************************************)
(* get_image_data_retry, lines 38-51: every task of the round has          *)
(* returned.  The results are listed, merged into current_images from the  *)
(* second round on, and the loop test decides between one more round and   *)
(* the return.                                                             *)
(***************************************************************************)
RoundResults == GatherResults(task_result, completed)

Merged ==
    IF attempts_made = 0 THEN RoundResults ELSE Merge(current_images, RoundResults)

\* lines 43-49: the lists the merge read, once list(map(...)) has built the
\* merged list and current_images names it
ListsAfterMerge_InPlace(ids, current, new) ==
    [ids |-> ids, current |-> Merge(current, new), new |-> new]

ListsAfterMerge(ids, current, new) ==
    [ids |-> ids, current |-> current, new |-> new]

RoundCompletes ==
    /\ strategy = "file"
    /\ br_pc = "gathering"
    /\ AllFinished(task_pc)
    /\ current_images' = Merged
    /\ attempts_made' = attempts_made + 1
    /\ ever_resolved' = ever_resolved \cup
           {k \in DOMAIN RoundResults : RoundResults[k] # NoneValue}
    /\ merge_inputs_kept' =
           (/\ merge_inputs_kept
            /\ attempts_made >= 1 =>
                   ListsAfterMerge(image_id_list, current_images, RoundResults) =
                       [ids     |-> image_id_list,
                        current |-> current_images,
                        new     |-> RoundResults])
    /\ UNCHANGED <<image_id_list, detail_max_attempts, permits, detail_calls>>
    /\ UNCHANGED dl_vars
    /\ UNCHANGED <<run_vars, crowd_vars>>

RoundRetries ==
    /\ RoundCompletes
    /\ LoopContinues(Merged, attempts_made + 1, detail_max_attempts)
    /\ br_pc' = br_pc
    /\ NewRound(Len(image_id_list))

RoundReturns ==
    /\ RoundCompletes
    /\ ~LoopContinues(Merged, attempts_made + 1, detail_max_attempts)
    /\ br_pc' = "returned"
    /\ UNCHANGED <<task_pc, task_result, completed>>

NextResolve ==
    \/ \E k \in DOMAIN task_pc : TaskAcquires(k)
    \/ \E k \in DOMAIN task_pc : TaskReturns(k)
    \/ \E k \in DOMAIN task_pc : TaskRaises(k)
    \/ \E k \in DOMAIN task_pc : TaskCancelled(k)
    \/ RoundRetries
    \/ RoundReturns

\* the bulk resolver over an identifier list
SpecResolve == InitResolve /\ [][NextResolve]_vars

\* the same, with the event loop running every task that can run and every
\* request answered in the end (the retry client bounds each exchange)
SpecResolveFair == SpecResolve /\ WF_vars(NextResolve)

(***************************************************************************)
(* models/image_download.py, run, and the two strategies: a whole run,     *)
(* from the listing to the zip file.                                       *)
(***************************************************************************)
\* reversed(image_url_list)
Reverse(list) == [k \in 1..Len(list) |-> list[Len(list) + 1 - k]]

\* file_image_source_strategy.py, line 106
CreateLines(lines) == SelectSeq(lines, StartsWithCreate)

\* line 25: [image for image in images if image is not None]
NotNone_UpToFirstNone(list) ==
    LET nones == {k \in DOMAIN list : list[k] = NoneValue}
        stop  == IF nones = {} THEN Len(list) + 1
                 ELSE CHOOSE k \in nones : \A j \in nones : k <= j
    IN  [k \in 1..(stop - 1) |-> list[k][1]]

NotNone(list) ==
    LET kept == SelectSeq(list, LAMBDA image : image # NoneValue)
    IN  [k \in DOMAIN kept |-> kept[k][1]]

\* what images_clipboard.txt can hold; the file can be missing
FileListings ==
    {[exists |-> e, lines |-> l] :
        e \in BOOLEAN, l \in UNION {[1..n -> UrlPool] : n \in 0..MaxRunItems}}

\* an item whose customData lacks MediaUrl
RejectedItem == [MediaUrl |-> None, thumbnailUrl |-> None, PageUrl |-> "url_idA"]

\* one item of a collection: customData.MediaUrl, the first declared
\* thumbnail (None without `thumbnails`), customData.PageUrl
ApiItems ==
    [MediaUrl     : {"u_jpeg", "u_raise"},
     thumbnailUrl : {None, "u_thumb", "u_jpeg"},
     PageUrl      : {"url_idA", "url_bad"}]
    \cup {RejectedItem}

\* a collection of the answer: its collectionId, its title, its items
Collection(id, title, items) ==
    [collectionId |-> id, title |-> title, items |-> items]

\* what POST /mysaves/collections/get answers: a status and, under 200, no
\* collection or one collection of 0..MaxRunItems items
ApiListings ==
    {[status |-> st, collections |-> c] :
        st \in {200, 500},
        c \in {<<>>} \cup
              {<<Collection("cA", "A", items)>> :
                  items \in UNION {[1..n -> ApiItems] : n \in 0..MaxRunItems}}}

\* utilities/image_validator.py, lines 17-27, with no collection named in
\* collections_to_include
ShouldAddCollectionToImages(collection) == collection.items # <<>>

\* lines 36-41
ShouldAddItemToImages(item) == item.MediaUrl # None

\* api_image_source_strategy.py, lines 80-84
ListedUrls_ThumbnailOnly(item) ==
    IF item.thumbnailUrl # None
    THEN <<<<3, item.thumbnailUrl>>>>
    ELSE <<>>

ListedUrls(item) ==
    IF item.thumbnailUrl # None
    THEN <<<<1, item.MediaUrl>>, <<3, item.thumbnailUrl>>>>
    ELSE <<<<1, item.MediaUrl>>>>

\* lines 67-73: the items the two loops reach, each with its collection
RECURSIVE ItemsOf(_)
ItemsOf(collections) ==
    IF collections = <<>> THEN <<>>
    ELSE LET collection == Head(collections)
             accepted   == SelectSeq(collection.items, ShouldAddItemToImages)
         IN  (IF ShouldAddCollectionToImages(collection)
              THEN [k \in DOMAIN accepted |->
                       [item |-> accepted[k], collection |-> collection]]
              ELSE <<>>)
             \o ItemsOf(Tail(collections))

\* line 96
NextIndex_Stuck(index) == index

NextIndex(index) == index + 1

\* lines 74-95: the Image of one item; collection_id is not among the
\* arguments and keeps its default
ImageOfItem(entry, index) ==
    [NewImage(ListedUrls(entry.item), index, entry.item.PageUrl)
        EXCEPT !.collection_name = entry.collection.title,
               !.date_modified = "modified"]

\* lines 65-97: index runs from 1 over the items gathered
RECURSIVE GatherFrom(_, _)
GatherFrom(entries, index) ==
    IF entries = <<>> THEN <<>>
    ELSE <<ImageOfItem(Head(entries), index)>>
         \o GatherFrom(Tail(entries), NextIndex(index))

GatheredImageData(collections) == GatherFrom(ItemsOf(collections), 1)

\* lines 140-143: any(... == url for _, url in image.image_urls)
HasUrl(image_urls, url) == \E k \in DOMAIN image_urls : image_urls[k][2] = url

AppendUnlessPresent(image_urls, priority, url) ==
    IF HasUrl(image_urls, url) THEN image_urls
    ELSE Append(image_urls, <<priority, url>>)

\* line 144: sorted(image.image_urls, key=lambda url: url[0]); sorted() is
\* stable, an entry goes behind the entries of its own priority
InsertByPriority(list, entry) ==
    LET before == Cardinality({k \in DOMAIN list : list[k][1] <= entry[1]})
    IN  SubSeq(list, 1, before) \o <<entry>> \o SubSeq(list, before + 1, Len(list))

RECURSIVE Sorted(_)
Sorted(list) ==
    IF list = <<>> THEN <<>>
    ELSE InsertByPriority(Sorted(SubSeq(list, 1, Len(list) - 1)), list[Len(list)])

SortedByPriority_Skipped(list) == list

SortedByPriority(list) == Sorted(list)

\* lines 153-155: the date of an item whose detail request was not answered 200
CreationDateNot200_Unset == None

CreationDateNot200 == FormatLocal(Today)

\* __set_additional_data, lines 132-155, for an answered request
SetAdditionalData(image, answer, content_url) ==
    IF answer = "value"
    THEN LET response_image ==
                 DetailRecord(ExtractSetAndImageId(image.page_url), content_url)
             with_content ==
                 AppendUnlessPresent(image.image_urls, 2, response_image.contentUrl)
             with_thumbnail ==
                 AppendUnlessPresent(with_content, 4, response_image.thumbnailUrl)
         IN  [image EXCEPT !.image_urls = SortedByPriority(with_thumbnail),
                           !.creation_date = FormatUtc(response_image.datePublished)]
    ELSE IF answer = "no_value"
    THEN [image EXCEPT !.creation_date = FormatUtc(image.date_modified)]
    ELSE [image EXCEPT !.creation_date = CreationDateNot200]

\* the lines of the file, the items of the collections
ListingSize(source_method, source) ==
    IF source_method = "file"
    THEN Len(source.lines)
    ELSE Len(ItemsOf(source.collections))

InitRun ==
    /\ DownloadIdle
    /\ strategy \in {"file", "api"}
    /\ run_pc = "listing"
    /\ listing \in (IF strategy = "file" THEN FileListings ELSE ApiListings)
    /\ archive = {}
    /\ statistics = <<>>
    /\ delete_toggle \in (IF ListingSize(strategy, listing) <= MaxDeletionRunItems
                          THEN BOOLEAN ELSE {FALSE})
    /\ delete_mode \in (IF delete_toggle THEN DeletionModes ELSE {"safest"})
    /\ deletion_requests = <<>>
    /\ deletion_warnings = <<>>
    /\ ExchangeIdle
    /\ CrowdIdle
    /\ image_id_list = <<>>
    /\ detail_max_attempts \in (IF strategy = "file" THEN 1..MaxRunAttempts ELSE {1})
    /\ br_pc = "idle"
    /\ attempts_made = 0
    /\ current_images = <<>>
    /\ task_pc = <<>>
    /\ task_result = <<>>
    /\ completed = <<>>
    /\ permits = SemaphoreCapacity
    /\ ever_resolved = {}
    /\ detail_calls = 0
    /\ merge_inputs_kept = TRUE

(***************************************************************************)
(* file_image_source_strategy.py, lines 22-24 and 103-109, then            *)
(* get_image_data_retry, line 38: the file is read, the identifiers are    *)
(* extracted from its Bing lines in reversed order, the tasks of the first *)
(* round are created.                                                      *)
(***************************************************************************)
FileListing ==
    /\ run_pc = "listing"
    /\ strategy = "file"
    /\ listing.exists
    /\ \A k \in DOMAIN CreateLines(listing.lines) :
           PatternMatches(CreateLines(listing.lines)[k])
    /\ LET urls == Reverse(CreateLines(listing.lines))
       IN  /\ image_id_list' = [k \in DOMAIN urls |-> ExtractSetAndImageId(urls[k])]
           /\ NewRound(Len(urls))
    /\ br_pc' = "gathering"
    /\ run_pc' = "resolving"
    /\ UNCHANGED <<detail_max_attempts, attempts_made, current_images, permits,
                   ever_resolved,
                   detail_calls, merge_inputs_kept>>
    /\ UNCHANGED run_io
    /\ UNCHANGED dl_vars
    /\ UNCHANGED crowd_vars

(***************************************************************************)
(* api_image_source_strategy.py, lines 33-34, 56-97 and 108-114: the       *)
(* collections are fetched, an Image is built from every item, the tasks   *)
(* that fetch the additional data are created.                             *)
(***************************************************************************)
ApiListing ==
    /\ run_pc = "listing"
    /\ strategy = "api"
    /\ listing.status = 200
    /\ Len(listing.collections) # 0
    /\ images' = GatheredImageData(listing.collections)
    /\ NewRound(Len(ItemsOf(listing.collections)))
    /\ br_pc' = "gathering"
    /\ run_pc' = "resolving"
    /\ UNCHANGED <<image_id_list, detail_max_attempts, attempts_made,
                   current_images, permits, ever_resolved,
                   detail_calls, merge_inputs_kept>>
    /\ UNCHANGED run_io
    /\ UNCHANGED <<total_image_count, successful_image_count, dl_phase, dl_pc,
                   dl_pos, requested>>
    /\ UNCHANGED crowd_vars

(***************************************************************************)
(* The listing raises: open() finds no file (line 104), a Bing line holds  *)
(* no identifiers (image_utility.py, line 31), the collections request is  *)
(* answered with another status than 200 (lines 98-100) or with no         *)
(* collection (lines 63-64).  Nothing catches: run ends with the exception.*)
(***************************************************************************)
ListingRaises ==
    /\ run_pc = "listing"
    /\ IF strategy = "file"
       THEN \/ ~listing.exists
            \/ \E k \in DOMAIN CreateLines(listing.lines) :
                   ~PatternMatches(CreateLines(listing.lines)[k])
       ELSE \/ listing.status # 200
            \/ Len(listing.collections) = 0
    /\ run_pc' = "crashed"
    /\ UNCHANGED run_io
    /\ UNCHANGED dl_vars
    /\ UNCHANGED br_vars
    /\ UNCHANGED crowd_vars

(***************************************************************************)
(* __set_additional_data, lines 124-126: the page URL of the item holds no *)
(* identifiers, the task raises before it asks for a permit.               *)
(***************************************************************************)
TaskMalformed(k) ==
    /\ strategy = "api"
    /\ br_pc = "gathering"
    /\ task_pc[k] = "created"
    /\ ~PatternMatches(images[k].page_url)
    /\ task_pc' = [task_pc EXCEPT ![k] = "raised"]
    /\ br_pc' = "raised"
    /\ UNCHANGED <<image_id_list, detail_max_attempts, attempts_made,
                   current_images, task_result, completed, permits, ever_resolved,
                   detail_calls, merge_inputs_kept>>
    /\ UNCHANGED dl_vars
    /\ UNCHANGED <<run_vars, crowd_vars>>

(***************************************************************************)
(* __set_additional_data, lines 131-155: the answer arrives, the candidate *)
(* list of the item is extended, the permit is returned.                   *)
(***************************************************************************)
ApiTaskReturns(k) ==
    /\ strategy = "api"
    /\ br_pc = "gathering"
    /\ task_pc[k] = "in_flight"
    /\ \E answer \in DetailAnswers \ {"raise"}, content_url \in DetailContentUrls :
           /\ answer # "value" => content_url = "u_jpeg"
           /\ images' = [images EXCEPT
                  ![k] = SetAdditionalData(images[k], answer, content_url)]
    /\ permits' = permits + 1
    /\ task_pc' = [task_pc EXCEPT ![k] = "done"]
    /\ UNCHANGED <<image_id_list, detail_max_attempts, br_pc, attempts_made,
                   current_images, task_result, completed, ever_resolved,
                   detail_calls, merge_inputs_kept>>
    /\ UNCHANGED <<total_image_count, successful_image_count, dl_phase, dl_pc,
                   dl_pos, requested>>
    /\ UNCHANGED <<run_vars, crowd_vars>>

(***************************************************************************)
(* An exception leaves get_images: run (line 46) ends with it.             *)
(***************************************************************************)
RunCrashes ==
    /\ run_pc = "resolving"
    /\ br_pc = "raised"
    /\ run_pc' = "crashed"
    /\ UNCHANGED run_io
    /\ UNCHANGED dl_vars
    /\ UNCHANGED br_vars
    /\ UNCHANGED crowd_vars

\* image_download.py, lines 46-47 and 58-63: run keeps the images, counts
\* them and creates one download task for each
DownloadStarts(list) ==
    /\ images' = list
    /\ total_image_count' = Len(list)
    /\ dl_phase' = "downloading"
    /\ dl_pc' = [i \in DOMAIN list |-> "created"]
    /\ dl_pos' = [i \in DOMAIN list |-> 1]
    /\ requested' = [i \in DOMAIN list |-> <<>>]
    /\ run_pc' = "downloading"
    /\ UNCHANGED <<run_io, successful_image_count>>
    /\ UNCHANGED crowd_vars

(***************************************************************************)
(* file_image_source_strategy.py, lines 24-27: get_image_data_retry has    *)
(* returned, get_images returns the entries that are not None.  The        *)
(* results of the last round are gone.                                     *)
(***************************************************************************)
FileGetImagesReturns ==
    /\ run_pc = "resolving"
    /\ strategy = "file"
    /\ br_pc = "returned"
    /\ DownloadStarts(NotNone(current_images))
    /\ task_result' = <<>>
    /\ completed' = <<>>
    /\ UNCHANGED <<image_id_list, detail_max_attempts, br_pc, attempts_made,
                   current_images, task_pc, permits, ever_resolved,
                   detail_calls, merge_inputs_kept>>

\* api_image_source_strategy.py, line 36: `return images`, the list of the
\* listing step with every item in it
ReturnedImages_WithoutFailed(imgs) ==
    SelectSeq(imgs, LAMBDA image : image.creation_date # CreationDateNot200)

ReturnedImages(imgs) == imgs

(***************************************************************************)
(* api_image_source_strategy.py, lines 114 and 34-36: every task has       *)
(* returned, get_images returns the images.                                *)
(***************************************************************************)
ApiGetImagesReturns ==
    /\ run_pc = "resolving"
    /\ strategy = "api"
    /\ br_pc = "gathering"
    /\ AllFinished(task_pc)
    /\ DownloadStarts(ReturnedImages(images))
    /\ br_pc' = "returned"
    /\ UNCHANGED <<image_id_list, detail_max_attempts, attempts_made,
                   current_images, task_pc, task_result, completed, permits,
                   ever_resolved,
                   detail_calls, merge_inputs_kept>>

(***************************************************************************)
(* The deletion of the collections after the download.                     *)
(***************************************************************************)
\* utilities/collection_utility.py, get_collection_deletion_strategy, lines
\* 67-79: the strategy of the mode, None for any other string
GetCollectionDeletionStrategy_Fallback(mode) ==
    IF mode \in {"safest", "safeish", "dangerous"} THEN mode ELSE "dangerous"

GetCollectionDeletionStrategy(mode) ==
    IF mode \in {"safest", "safeish", "dangerous"} THEN mode ELSE None

\* the number of items at which the safe strategies spare every collection
DeletionItemLimit == 1000

\* images.sort(key=lambda image: image.collection_id), line 19: two keys
\* are compared as soon as there are two images, and None compares with
\* nothing (TypeError)
SortRaises(imgs) ==
    /\ Len(imgs) >= 2
    /\ \E i \in DOMAIN imgs : imgs[i].collection_id = None

\* the keys of grouped_by_collection_id_images, lines 20-21
CollectionIds(imgs) == {imgs[i].collection_id : i \in DOMAIN imgs}

\* the image_group of a key
ImageGroup(imgs, collection_id) ==
    {i \in DOMAIN imgs : imgs[i].collection_id = collection_id}

\* safest_collection_deletion_strategy.py, line 24
SafestValid_StatusOnly(image) == image.status_code = 200

SafestValid(image) == image.status_code = 200 /\ image.is_success

\* safeish_collection_deletion_stategy.py, lines 24-25
SafeishValid_AnyStatus(image) == image.status_code # NoStatus

SafeishValid(image) == image.status_code = 200 \/ image.status_code = 404

\* the condition of the strategy on an image of a group
ValidFor(deletion_strategy, image) ==
    IF deletion_strategy = "safest" THEN SafestValid(image) ELSE SafeishValid(image)

\* lines 22-25 of both: collection_ids_to_delete
CollectionIdsToDelete(imgs, deletion_strategy) ==
    IF Len(imgs) # DeletionItemLimit
    THEN {id \in CollectionIds(imgs) :
             \A i \in ImageGroup(imgs, id) : ValidFor(deletion_strategy, imgs[i])}
    ELSE {}

\* what the server answers to the deletion POST
DeleteAnswers == {"success", "refused", "non_200", "raise"}

\* collection_utility.py, delete_collection, lines 37-58: the POST of the
\* ids and the log line of its answer; ', '.join (line 51) raises TypeError
\* on an id that is None
DeleteCollection(collection_ids, answer) ==
    [requests |-> <<collection_ids>>,
     warnings |-> <<>>,
     raises   |-> \/ answer = "raise"
                  \/ answer = "success" /\ None \in collection_ids]

\* lines 26-29 of the safe strategies, 20-23 of the dangerous one
DeleteIfAny(collection_ids, answer) ==
    IF collection_ids # {}
    THEN DeleteCollection(collection_ids, answer)
    ELSE [requests |-> <<>>, warnings |-> <<"no_collection_valid">>, raises |-> FALSE]

\* the delete_collection of the three strategies
StrategyDeleteCollection_AllAlike(deletion_strategy, imgs, answer) ==
    DeleteIfAny(CollectionIds(imgs), answer)

StrategyDeleteCollection(deletion_strategy, imgs, answer) ==
    IF deletion_strategy = "dangerous"
    THEN DeleteIfAny(CollectionIds(imgs), answer)
    ELSE IF SortRaises(imgs)
    THEN [requests |-> <<>>, warnings |-> <<>>, raises |-> TRUE]
    ELSE DeleteIfAny(CollectionIdsToDelete(imgs, deletion_strategy), answer)

\* models/image_download.py, __delete_collection, lines 150-155
DeleteCollections(mode, imgs, answer) ==
    LET deletion_strategy == GetCollectionDeletionStrategy(mode)
    IN  IF deletion_strategy # None
        THEN StrategyDeleteCollection(deletion_strategy, imgs, answer)
        ELSE [requests |-> <<>>, warnings |-> <<"no_valid_method">>, raises |-> FALSE]

\* lines 66-70: one entry for each successful image, under the name of its
\* collection
ZipEntries(imgs) ==
    {[item    |-> i,
      arcname |-> <<imgs[i].collection_name, imgs[i].file_name>>] :
        i \in SuccessfulImages(imgs)}

\* utilities/statistics.py, create_statistics: one row for every image, in
\* the order of the list
CreateStatistics(imgs) ==
    [k \in DOMAIN imgs |->
        [index        |-> imgs[k].index,
         page_url     |-> imgs[k].page_url,
         is_success   |-> imgs[k].is_success,
         reason       |-> imgs[k].reason,
         attempts     |-> imgs[k].attempts,
         is_thumbnail |-> imgs[k].is_thumbnail]]

\* image_download.py, lines 71-72
DeletionDue_ToggleOnly(source_method, toggle) == toggle

DeletionDue(source_method, toggle) == source_method = "api" /\ toggle

(***************************************************************************)
(* image_download.py, lines 64-77: the files of the successful images are  *)
(* written to the zip file, the collections are deleted if the run is one  *)
(* of the API strategy and the toggle is set, the statistics are written   *)
(* if Config().detailed_statistics is set, run returns.  An exception of   *)
(* the deletion leaves run, the zip file is closed with its entries.       *)
(***************************************************************************)
ZipImages ==
    /\ run_pc = "downloading"
    /\ dl_phase = "gathered"
    /\ archive' = ZipEntries(images)
    /\ IF DeletionDue(strategy, delete_toggle)
       THEN \E answer \in DeleteAnswers :
                LET deleted == DeleteCollections(delete_mode, images, answer)
                IN  /\ deletion_requests' = deletion_requests \o deleted.requests
                    /\ deletion_warnings' = deletion_warnings \o deleted.warnings
                    /\ run_pc' = IF deleted.raises THEN "crashed" ELSE "done"
       ELSE /\ run_pc' = "done"
            /\ UNCHANGED <<deletion_requests, deletion_warnings>>
    /\ IF run_pc' = "done"
       THEN \E detailed_statistics \in BOOLEAN :
                statistics' = IF detailed_statistics
                              THEN <<CreateStatistics(images)>>
                              ELSE <<>>
       ELSE statistics' = statistics
    /\ UNCHANGED <<strategy, listing, delete_toggle, delete_mode, ex_vars>>
    /\ UNCHANGED dl_vars
    /\ UNCHANGED br_vars
    /\ UNCHANGED crowd_vars

NextRun ==
    \/ FileListing
    \/ ApiListing
    \/ ListingRaises
    \/ \E k \in DOMAIN task_pc : TaskAcquires(k)
    \/ \E k \in DOMAIN task_pc : TaskReturns(k)
    \/ \E k \in DOMAIN task_pc : ApiTaskReturns(k)
    \/ \E k \in DOMAIN task_pc : TaskMalformed(k)
    \/ \E k \in DOMAIN task_pc : TaskRaises(k)
    \/ \E k \in DOMAIN task_pc : TaskCancelled(k)
    \/ RoundRetries
    \/ RoundReturns
    \/ RunCrashes
    \/ FileGetImagesReturns
    \/ ApiGetImagesReturns
    \/ \E i \in Items : StartTask(i)
    \/ \E i \in Items : ResponseRejected(i)
    \/ \E i \in Items : ResponseSaved(i)
    \/ \E i \in Items : ResponseRaised(i)
    \/ GatherReturns
    \/ ZipImages

\* a whole run of either strategy
SpecRun == InitRun /\ [][NextRun]_vars

(***************************************************************************)
(* The second half of a run of the API strategy: the downloads, the zip    *)
(* file, the deletion of the collections.  It starts where get_images has  *)
(* returned the items of one or two collections, every detail request      *)
(* having been answered with a status other than 200, under any            *)
(* configuration of the deletion.                                          *)
(***************************************************************************)
\* an item of a collection: what the server of its MediaUrl answers
PackItems ==
    [MediaUrl     : {"u_jpeg", "u_html", "u_404", "u_500", "u_raise"},
     thumbnailUrl : {None},
     PageUrl      : {"url_idA"}]
    \cup {[MediaUrl |-> "u_404", thumbnailUrl |-> "u_500", PageUrl |-> "url_idA"]}

\* a collection cA of some items, then no other or a collection cB of one
PackListings ==
    {[status |-> 200, collections |-> <<Collection("cA", "A", a)>> \o rest] :
        a \in UNION {[1..n -> PackItems] : n \in 0..MaxPackItems},
        rest \in {<<>>} \cup {<<Collection("cB", "B", <<b>>)>> : b \in PackItems}}

InitPack ==
    /\ strategy = "api"
    /\ run_pc = "downloading"
    /\ listing \in {l \in PackListings :
                       Len(ItemsOf(l.collections)) <= MaxPackItems}
    /\ archive = {}
    /\ statistics = <<>>
    /\ delete_toggle \in BOOLEAN
    /\ delete_mode \in (IF delete_toggle THEN DeletionModes ELSE {"safest"})
    /\ deletion_requests = <<>>
    /\ deletion_warnings = <<>>
    /\ ExchangeIdle
    /\ CrowdIdle
    /\ LET gathered == GatheredImageData(listing.collections)
       IN  /\ images = [k \in DOMAIN gathered |->
                           SetAdditionalData(gathered[k], "non_200", "u_jpeg")]
           /\ total_image_count = Len(gathered)
           /\ dl_pc = [k \in DOMAIN gathered |-> "created"]
           /\ dl_pos = [k \in DOMAIN gathered |-> 1]
           /\ requested = [k \in DOMAIN gathered |-> <<>>]
           /\ task_pc = [k \in DOMAIN gathered |-> "done"]
           /\ task_result = [k \in DOMAIN gathered |-> NoneValue]
    /\ successful_image_count = 0
    /\ dl_phase = "downloading"
    /\ image_id_list = <<>>
    /\ detail_max_attempts = 1
    /\ br_pc = "returned"
    /\ attempts_made = 0
    /\ current_images = <<>>
    /\ completed = <<>>
    /\ permits = SemaphoreCapacity
    /\ ever_resolved = {}
    /\ detail_calls = 0
    /\ merge_inputs_kept = TRUE

NextPack ==
    \/ \E i \in Items : StartTask(i)
    \/ \E i \in Items : ResponseRejected(i)
    \/ \E i \in Items : ResponseSaved(i)
    \/ \E i \in Items : ResponseRaised(i)
    \/ GatherReturns
    \/ ZipImages

\* the downloads, the zip file and the deletion of a run of the API strategy
SpecPack == InitPack /\ [][NextPack]_vars

(***************************************************************************)
(* The end of a run of the API strategy over a listing of about            *)
(* maxItemsToFetch items (api_image_source_strategy.py, line 51): the      *)
(* download of every item has finished, the zip file and the deletion      *)
(* follow.  All items of the one collection answer alike but the first.    *)
(***************************************************************************)
CapUrls == {"u_jpeg", "u_404", "u_500"}

CapItem(url) == [MediaUrl |-> url, thumbnailUrl |-> None, PageUrl |-> "url_idA"]

CapListing(n, first, rest) ==
    [status      |-> 200,
     collections |-> <<Collection("cA", "A",
                           [k \in 1..n |-> CapItem(IF k = 1 THEN first ELSE rest)])>>]

\* the item at position k of the listing, once its detail request and its
\* download have ended
CapImage(source, k) ==
    LET collection == source.collections[1]
        listed     == ImageOfItem([item |-> collection.items[k],
                                   collection |-> collection], k)
    IN  DownloadAlone(SetAdditionalData(listed, "non_200", "u_jpeg"))

InitCap ==
    /\ strategy = "api"
    /\ run_pc = "downloading"
    /\ \E n \in (DeletionItemLimit - MaxCapSlack)..(DeletionItemLimit + MaxCapSlack),
          first \in CapUrls, rest \in CapUrls :
           listing = CapListing(n, first, rest)
    /\ archive = {}
    /\ statistics = <<>>
    /\ delete_toggle = TRUE
    /\ delete_mode \in DeletionModes
    /\ deletion_requests = <<>>
    /\ deletion_warnings = <<>>
    /\ ExchangeIdle
    /\ CrowdIdle
    /\ LET items == listing.collections[1].items
       IN  /\ images = [k \in DOMAIN items |-> CapImage(listing, k)]
           /\ total_image_count = Len(items)
           /\ dl_pc = [k \in DOMAIN items |-> "done"]
           /\ dl_pos = [k \in DOMAIN items |-> 1]
           /\ requested = [k \in DOMAIN items |-> <<items[k].MediaUrl>>]
           /\ task_pc = [k \in DOMAIN items |-> "done"]
           /\ task_result = [k \in DOMAIN items |-> NoneValue]
    /\ successful_image_count = Cardinality(SuccessfulImages(images))
    /\ dl_phase = "gathered"
    /\ image_id_list = <<>>
    /\ detail_max_attempts = 1
    /\ br_pc = "returned"
    /\ attempts_made = 0
    /\ current_images = <<>>
    /\ completed = <<>>
    /\ permits = SemaphoreCapacity
    /\ ever_resolved = {}
    /\ detail_calls = 0
    /\ merge_inputs_kept = TRUE

NextCap == ZipImages

SpecCap == InitCap /\ [][NextCap]_vars

(***************************************************************************)
(* image_utility.py, get_detail_image, line 84, and                        *)
(* api_image_source_strategy.py, __set_additional_data, line 129: one      *)
(* round of at least as many detail tasks as the semaphore has permits.    *)
(* The tasks run the same code and differ in nothing the semaphore sees,   *)
(* so they are counted by state: crowd_created wait for a permit,          *)
(* crowd_in_flight are inside `async with semaphore:`, the others have     *)
(* left it.                                                                *)
(***************************************************************************)
InitLimiter ==
    /\ DownloadIdle
    /\ ResolverIdle
    /\ strategy \in {"file", "api"}
    /\ run_pc = "resolving"
    /\ listing = [exists |-> TRUE, lines |-> <<>>]
    /\ archive = {}
    /\ statistics = <<>>
    /\ DeletionOff
    /\ ExchangeIdle
    /\ crowd_size \in SemaphoreCapacity..(SemaphoreCapacity + MaxExtraTasks)
    /\ crowd_created = crowd_size
    /\ crowd_in_flight = 0

\* `async with semaphore:` is entered and the GET sent
CrowdAcquires ==
    /\ crowd_created > 0
    /\ CanAcquire(permits)
    /\ permits' = permits - 1
    /\ crowd_created' = crowd_created - 1
    /\ crowd_in_flight' = crowd_in_flight + 1
    /\ UNCHANGED <<image_id_list, detail_max_attempts, br_pc, attempts_made,
                   current_images, task_pc, task_result, completed, ever_resolved,
                   detail_calls, merge_inputs_kept>>
    /\ UNCHANGED <<dl_vars, run_vars, crowd_size>>

\* `async with semaphore:` is left, with the answer or with an exception
CrowdReleases ==
    /\ crowd_in_flight > 0
    /\ permits' = permits + 1
    /\ crowd_in_flight' = crowd_in_flight - 1
    /\ UNCHANGED <<image_id_list, detail_max_attempts, br_pc, attempts_made,
                   current_images, task_pc, task_result, completed, ever_resolved,
                   detail_calls, merge_inputs_kept>>
    /\ UNCHANGED <<dl_vars, run_vars, crowd_size, crowd_created>>

\* get_image_data_retry, lines 40-43: every task of the round has left, the
\* file strategy creates the tasks of the next round over the whole list
CrowdRetries ==
    /\ strategy = "file"
    /\ crowd_created = 0
    /\ crowd_in_flight = 0
    /\ crowd_created' = crowd_size
    /\ UNCHANGED <<dl_vars, br_vars, run_vars, crowd_size, crowd_in_flight>>

NextLimiter ==
    \/ CrowdAcquires
    \/ CrowdReleases
    \/ CrowdRetries

\* the semaphore under a round larger than its permits
SpecLimiter == InitLimiter /\ [][NextLimiter]_vars

(***************************************************************************)
(* One request through a retry client: the calls the client makes and what *)
(* the sender does with the response it is given.  Three senders use such  *)
(* a client: the download of a candidate URL (image_download.py, line 92), *)
(* the detail request of the API strategy (api_image_source_strategy.py,   *)
(* line 131) and get_detail_image (image_utility.py, lines 86-89).         *)
(***************************************************************************)
RetryClients == {"download", "api_detail", "detail"}

\* network_utility.py, line 29, and image_utility.py, line 86: the attempts
\* of the client
Attempts_Default(client) == 4

Attempts(client) == IF client = "detail" THEN 8 ELSE 4

\* image_utility.py, lines 87-88: only get_detail_image sets an
\* evaluate_response_callback
HasCallback(client) == client = "detail"

\* network_utility.py, line 37: statuses holds every code but 200
IsStatusCodeOk(status) == status = 200

\* network_utility.py, should_retry_get_detail_image, lines 65-71: the value
\* the callback returns
ShouldRetryGetDetailImage(response) ==
    IF response.status = 200
    THEN LET valid_response ==
                 /\ response.body.kind # "null"
                 /\ response.body.kind # "no_value"
                 /\ response.body.kind # "value_null"
         IN  ~valid_response
    ELSE TRUE

\* image_utility.py, lines 87-88: the callback is handed over as
\* evaluate_response_callback, whose result the client reads as "the
\* response is correct"
EvaluateResponseCallback(response) == ShouldRetryGetDetailImage(response)

\* the retry loop of the client: after the answer to call number `calls`,
\* the response is surfaced or another call is made
RetryDecision(client, calls, response) ==
    IF calls >= Attempts(client) THEN "return"
    ELSE IF ~IsStatusCodeOk(response.status) THEN "retry"
    ELSE IF HasCallback(client) /\ ~EvaluateResponseCallback(response) THEN "retry"
    ELSE "return"

\* urllib.parse.unquote on the image id of the URL
Unquote(image_id) == IF image_id = "id%41" THEN "idA" ELSE image_id

\* image_utility.py, lines 95-96, api_image_source_strategy.py, lines
\* 137-138: the records whose imageId is the decoded id, the first of them,
\* else the first of all; images[0] of an empty array raises IndexError
SelectDetailImage(value, image_id) ==
    LET decoded_image_id == Unquote(image_id)
        detail_image_list ==
            SelectSeq(value, LAMBDA img : img.imageId = decoded_image_id)
    IN  IF detail_image_list # <<>>
        THEN [kind |-> "record", record |-> detail_image_list[1]]
        ELSE IF value # <<>>
        THEN [kind |-> "record", record |-> value[1]]
        ELSE [kind |-> "raised", record |-> NoRecord]

\* image_utility.py, get_detail_image, lines 90-100: what it returns for
\* the response; `'value' in data` raises TypeError on a null body
GetDetailImageResult(response, image_id) ==
    IF response.status = 200
    THEN CASE response.body.kind = "null"  -> [kind |-> "raised", record |-> NoRecord]
           [] response.body.kind = "array" -> SelectDetailImage(response.body.value, image_id)
           [] OTHER                        -> [kind |-> "unresolved", record |-> NoRecord]
    ELSE [kind |-> "unresolved", record |-> NoRecord]

\* api_image_source_strategy.py, __set_additional_data, lines 132-155: the
\* record it takes the data from; a null body and a null 'value' raise
\* TypeError
SetAdditionalDataResult(response, image_id) ==
    IF response.status = 200
    THEN CASE response.body.kind \in {"null", "value_null"} ->
                  [kind |-> "raised", record |-> NoRecord]
           [] response.body.kind = "array" ->
                  SelectDetailImage(response.body.value, image_id)
           [] OTHER -> [kind |-> "no_value", record |-> NoRecord]
    ELSE [kind |-> "non_200", record |-> NoRecord]

\* what the sender makes of the response the client surfaces
SenderResult(client, response, image_id) ==
    CASE client = "detail"     -> GetDetailImageResult(response, image_id)
      [] client = "api_detail" -> SetAdditionalDataResult(response, image_id)
      [] OTHER                 -> [kind |-> "handled", record |-> NoRecord]

\* the records of a 'value' array
DetailRecords == [imageId : {"idA", "idB"}, contentUrl : {"u_jpeg", "u_404"}]

\* what a server answers to one call; the answer "raise" is no response
ExchangeAnswers ==
    {Response(404, "null", <<>>)}
    \cup {Response(200, kind, <<>>) : kind \in {"null", "no_value", "value_null"}}
    \cup {Response(200, "array", value) :
             value \in UNION {[1..n -> DetailRecords] : n \in 0..MaxRecords}}

\* the answer of the server to call number `call`: 404 to the first
\* ex_server.fails calls, then always the same
AnswerTo(call) ==
    IF call <= ex_server.fails THEN Response(404, "null", <<>>) ELSE ex_server.then

InitExchange ==
    /\ DownloadIdle
    /\ ResolverIdle
    /\ CrowdIdle
    /\ ex_client \in RetryClients
    /\ strategy = (IF ex_client = "api_detail" THEN "api" ELSE "file")
    /\ run_pc = (IF ex_client = "download" THEN "downloading" ELSE "resolving")
    /\ listing = [exists |-> TRUE, lines |-> <<>>]
    /\ archive = {}
    /\ statistics = <<>>
    /\ DeletionOff
    /\ ex_image_id \in {"idA", "id%41"}
    /\ ex_server \in [fails : 0..MaxFailures,
                      then  : ExchangeAnswers \cup {Response(NoStatus, "raise", <<>>)}]
    /\ ex_calls = 0
    /\ ex_pc = "calling"
    /\ ex_response = NoResponse
    /\ ex_result = [kind |-> "none", record |-> NoRecord]

\* a call is answered and the client makes another one
ExchangeRetries ==
    /\ ex_pc = "calling"
    /\ LET response == AnswerTo(ex_calls + 1)
       IN  /\ \/ /\ response.body.kind # "raise"
                 /\ RetryDecision(ex_client, ex_calls + 1, response) = "retry"
              \/ /\ response.body.kind = "raise"
                 /\ ex_calls + 1 < Attempts(ex_client)
           /\ ex_response' = response
    /\ ex_calls' = ex_calls + 1
    /\ UNCHANGED <<ex_client, ex_image_id, ex_server, ex_pc, ex_result>>
    /\ UNCHANGED <<strategy, listing, archive, statistics, delete_toggle,
                   delete_mode, deletion_requests, deletion_warnings, run_pc>>
    /\ UNCHANGED <<dl_vars, br_vars, crowd_vars>>

\* a call is answered and the client hands the response to the sender
ExchangeReturns ==
    /\ ex_pc = "calling"
    /\ LET response == AnswerTo(ex_calls + 1)
       IN  /\ response.body.kind # "raise"
           /\ RetryDecision(ex_client, ex_calls + 1, response) = "return"
           /\ ex_response' = response
           /\ ex_result' = SenderResult(ex_client, response, ex_image_id)
    /\ ex_calls' = ex_calls + 1
    /\ ex_pc' = "returned"
    /\ UNCHANGED <<ex_client, ex_image_id, ex_server>>
    /\ UNCHANGED <<strategy, listing, archive, statistics, delete_toggle,
                   delete_mode, deletion_requests, deletion_warnings, run_pc>>
    /\ UNCHANGED <<dl_vars, br_vars, crowd_vars>>

\* a call ends with an exception of the transport and the client raises it
ExchangeRaises ==
    /\ ex_pc = "calling"
    /\ AnswerTo(ex_calls + 1).body.kind = "raise"
    /\ ex_response' = AnswerTo(ex_calls + 1)
    /\ ex_result' = [kind |-> "raised", record |-> NoRecord]
    /\ ex_calls' = ex_calls + 1
    /\ ex_pc' = "raised"
    /\ UNCHANGED <<ex_client, ex_image_id, ex_server>>
    /\ UNCHANGED <<strategy, listing, archive, statistics, delete_toggle,
                   delete_mode, deletion_requests, deletion_warnings, run_pc>>
    /\ UNCHANGED <<dl_vars, br_vars, crowd_vars>>

NextExchange ==
    \/ ExchangeRetries
    \/ ExchangeReturns
    \/ ExchangeRaises

\* one request through a retry client
SpecExchange == InitExchange /\ [][NextExchange]_vars

(***************************************************************************)
(* The download of one item: what was asked and what was answered.         *)
(***************************************************************************)
\* the number of candidates of item i whose answer has been handled
Answered(i) ==
    IF dl_pc[i] = "awaiting" THEN Len(requested[i]) - 1 ELSE Len(requested[i])

\* the candidate URLs of item i, in the order of its list
CandidateUrls(i) ==
    [k \in DOMAIN images[i].image_urls |-> CandidateUrl(images[i], k)]

RequestedInOrder(i) ==
    /\ Len(requested[i]) <= Len(images[i].image_urls)
    /\ requested[i] = SubSeq(CandidateUrls(i), 1, Len(requested[i]))

\* the server of `url` answers, and answers 200 with an image content type
AnswersImage(url) ==
    /\ ~GetRaises(url)
    /\ ResponseStatus(url) = 200
    /\ IsImageContentType(ResponseContentType(url))

\* the server of `url` answers, and answers something else
AnswersNoImage(url) ==
    /\ ~GetRaises(url)
    /\ ~(ResponseStatus(url) = 200 /\ IsImageContentType(ResponseContentType(url)))

Outcome(i) ==
    IF images[i].is_success THEN "Success"
    ELSE IF dl_pc[i] \in {"done", "cancelled"} THEN "Failed"
    ELSE "Pending"

C2_SuccessNeedsImageType ==
    \A i \in Items :
        /\ images[i].is_success =>
               /\ images[i].attempts \in 1..Len(images[i].image_urls)
               /\ AnswersImage(CandidateUrl(images[i], images[i].attempts))
               /\ images[i].used_image_url = CandidateUrl(images[i], images[i].attempts)
        /\ \A k \in 1..Answered(i) :
               LET url == CandidateUrl(images[i], k)
               IN  (~GetRaises(url) /\ ResponseStatus(url) = 200
                        /\ ~IsImageContentType(ResponseContentType(url))) =>
                       /\ images[i].attempts >= k
                       /\ images[i].is_success => images[i].attempts > k
                       /\ k < Len(images[i].image_urls) => Len(requested[i]) > k
                       /\ k = Len(images[i].image_urls) =>
                              (dl_pc[i] = "done" /\ ~images[i].is_success)

\* a 200 text/html answer was passed over and the next candidate saved
C2_Witness ==
    \E i \in Items :
        /\ CandidateUrl(images[i], 1) = "u_html"
        /\ images[i].is_success
        /\ images[i].attempts = 2

(***************************************************************************)
(* C3: an item whose every candidate answers, and answers non-200 or with  *)
(* a content type that is no image, ends Failed with attempts equal to the *)
(* number of its candidates.                                               *)
(***************************************************************************)
C3_AllRejectedEndsFailed ==
    \A i \in Items :
        (/\ dl_pc[i] = "done"
         /\ \A k \in DOMAIN images[i].image_urls :
                AnswersNoImage(CandidateUrl(images[i], k))) =>
            /\ Outcome(i) = "Failed"
            /\ images[i].attempts = Len(images[i].image_urls)

C3_Witness ==
    \E i \in Items :
        /\ dl_pc[i] = "done"
        /\ Len(images[i].image_urls) >= 2
        /\ \A k \in DOMAIN images[i].image_urls :
               AnswersNoImage(CandidateUrl(images[i], k))
        /\ images[i].attempts = Len(images[i].image_urls)
        /\ CandidateUrl(images[i], 1) # CandidateUrl(images[i], 2)

(***************************************************************************)
(* C4, as stated: an item with a candidate that always answers 200 with an *)
(* image content type ends Success with attempts >= 1, whatever its other  *)
(* candidates do.  It is stated here for the candidates that always answer *)
(* a sound JPEG, the reading most favourable to the code.                  *)
(***************************************************************************)
C4_AsStated ==
    \A i \in Items :
        (/\ dl_pc[i] = "done"
         /\ \E k \in DOMAIN images[i].image_urls :
                CandidateUrl(images[i], k) \in {"u_jpeg", "u_thumb"}) =>
            /\ images[i].is_success
            /\ images[i].attempts >= 1

(***************************************************************************)
(* C5, as stated: when the walk of an item has ended, attempts equals the  *)
(* number of candidates that were attempted, however each attempt ended.   *)
(***************************************************************************)
C5_AsStated ==
    \A i \in Items :
        dl_pc[i] = "done" => images[i].attempts = Len(requested[i])

(***************************************************************************)
(* C6: a failure of one item stays in its own task: the run never crashes, *)
(* no task is cancelled, a step of one task leaves every other item as it  *)
(* was, every unfinished task can still take its step, and an item ends    *)
(* exactly as it would have ended downloaded alone.                        *)
(***************************************************************************)
OthersUntouched ==
    \A n \in Items :
        (images'[n] # images[n] \/ dl_pc'[n] # dl_pc[n] \/ requested'[n] # requested[n]) =>
            \A m \in Items \ {n} :
                /\ images'[m] = images[m]
                /\ dl_pc'[m] = dl_pc[m]
                /\ dl_pos'[m] = dl_pos[m]
                /\ requested'[m] = requested[m]

Isolated ==
    /\ dl_phase # "crashed"
    /\ \A m \in Items :
           /\ dl_pc[m] # "cancelled"
           /\ (dl_phase = "downloading" /\ dl_pc[m] # "done") => ENABLED TaskStep(m)
           /\ dl_pc[m] = "done" =>
                  images[m] = DownloadAlone(NewImage(images[m].image_urls, images[m].index,
                                                     images[m].page_url))

C6_BulkheadIsolation == []Isolated /\ [][OthersUntouched]_vars

\* the GET of one item raised, and another item was saved all the same
C6_Witness ==
    /\ dl_phase = "gathered"
    /\ \E n, m \in Items :
           /\ n # m
           /\ requested[n] # <<>>
           /\ GetRaises(requested[n][Len(requested[n])])
           /\ ~images[n].is_success
           /\ images[m].is_success
           /\ Len(requested[m]) = 2

(***************************************************************************)
(* C7: the outcome of an item only moves from Pending to Success or from   *)
(* Pending to Failed: a Success stays a Success and a Failed stays Failed. *)
(***************************************************************************)
OutcomeKept ==
    \A i \in Items :
        /\ Outcome(i) = "Success" => Outcome(i)' = "Success"
        /\ Outcome(i) = "Failed" => Outcome(i)' = "Failed"

C7_OutcomeNeverGoesBack == [][OutcomeKept]_vars

\* one item is Success, another Failed, and the gather has returned since
C7_Witness ==
    /\ dl_phase = "gathered"
    /\ \E i, j \in Items : Outcome(i) = "Success" /\ Outcome(j) = "Failed"

(***************************************************************************)
(* The bulk resolver.                                                      *)
(***************************************************************************)
\* the entry is the resolution of the identifier at position k
ResolutionOf(entry, k) ==
    /\ entry[1].index = k
    /\ entry[1].page_url = image_id_list[k]
    /\ entry[1].image_urls[1][1] = 1
    /\ entry[1].image_urls[2][1] = 2

AlignedWithInput(list) ==
    /\ Len(list) = Len(image_id_list)
    /\ \A k \in DOMAIN list :
           list[k] = NoneValue \/ ResolutionOf(list[k], k)

(***************************************************************************)
(* C8: after every round, and so at the return, the merged list is as long *)
(* as the identifier list, and its entry at position k is None or the      *)
(* resolution of identifier k, in whatever order the requests of the round *)
(* were answered.                                                          *)
(***************************************************************************)
C8_PositionallyAligned ==
    attempts_made >= 1 => AlignedWithInput(current_images)

\* two different identifiers, answered in the reverse order, both resolved
C8_Witness ==
    /\ br_pc = "returned"
    /\ Len(image_id_list) = 2
    /\ image_id_list[1] # image_id_list[2]
    /\ completed = <<2, 1>>
    /\ ~HasNone(current_images)

(***************************************************************************)
(* C9: a position of the merged list that is resolved stays resolved and   *)
(* keeps its value in every later step, and after every round a position   *)
(* is resolved exactly when some completed round resolved it.              *)
(***************************************************************************)
ResolvedKept ==
    \A k \in DOMAIN current_images :
        current_images[k] # NoneValue =>
            /\ k \in DOMAIN current_images'
            /\ current_images'[k] = current_images[k]

ResolvedIffEverResolved ==
    attempts_made >= 1 =>
        \A k \in DOMAIN image_id_list :
            (k \in DOMAIN current_images /\ current_images[k] # NoneValue)
                <=> k \in ever_resolved

C9_MergeIsMonotone == []ResolvedIffEverResolved /\ [][ResolvedKept]_vars

\* a position resolved in an earlier round was resolved again, to another
\* value, in the last round, and has kept the earlier value
C9_Witness ==
    /\ br_pc = "returned"
    /\ attempts_made >= 2
    /\ \E k \in DOMAIN current_images :
           /\ current_images[k] # NoneValue
           /\ task_result[k] # NoneValue
           /\ task_result[k] # current_images[k]

(***************************************************************************)
(* C10: the resolver ends.  It never completes more rounds than the budget *)
(* (one round at least); a round that leaves no None, or that uses up the  *)
(* budget, is followed by the return and not by another round; a round     *)
(* that leaves a None within the budget is followed by another round.      *)
(***************************************************************************)
RoundBudget == IF detail_max_attempts > 1 THEN detail_max_attempts ELSE 1

WithinBudget ==
    /\ attempts_made <= RoundBudget
    /\ br_pc = "returned" =>
           /\ attempts_made >= 1
           /\ Len(current_images) = Len(image_id_list)
           /\ ~HasNone(current_images) \/ attempts_made = RoundBudget

StopsWhenDue ==
    attempts_made' = attempts_made + 1 =>
        IF HasNone(current_images') /\ attempts_made' < RoundBudget
        THEN br_pc' = "gathering" /\ completed' = <<>>
        ELSE br_pc' = "returned"

ResolverEnded == br_pc \in {"returned", "raised"}

C10_ResolverTerminates ==
    /\ []WithinBudget
    /\ [][StopsWhenDue]_vars
    /\ <>ResolverEnded

\* the budget was used up and an entry is still None
C10_Witness ==
    /\ br_pc = "returned"
    /\ detail_max_attempts >= 2
    /\ attempts_made = detail_max_attempts
    /\ HasNone(current_images)
    /\ ever_resolved # {}

(***************************************************************************)
(* A whole run: what get_images hands to the download.                     *)
(***************************************************************************)
\* the positions of the identifier list the resolver has resolved
ResolvedPositions == {p \in DOMAIN current_images : current_images[p] # NoneValue}

\* this step is the return of get_images of the file strategy
FileImagesReturned ==
    strategy = "file" /\ run_pc = "resolving" /\ run_pc' = "downloading"

\* the returned list holds the resolved entries, each once, in input order
ReturnsResolvedInOrder ==
    /\ \A k \in DOMAIN images' :
           /\ images'[k].index \in ResolvedPositions
           /\ images'[k] = current_images[images'[k].index][1]
    /\ \A j, k \in DOMAIN images' : j < k => images'[j].index < images'[k].index
    /\ {images'[k].index : k \in DOMAIN images'} = ResolvedPositions
    /\ Len(images') =
           Len(image_id_list) - Cardinality(DOMAIN image_id_list \ ever_resolved)

\* C11: in a run of the file strategy whose resolver returns, get_images
\* returns exactly the resolved entries of the resolver's list in input
\* order (no None, shorter than the input by the number of identifiers no
\* round resolved) and the run goes on to the download with them; an
\* identifier left unresolved does not end the run.
C11_UnresolvedAreDropped ==
    /\ [](strategy = "file" /\ br_pc = "returned" => run_pc # "crashed")
    /\ [](strategy = "file" /\ br_pc = "returned" /\ run_pc = "resolving"
             => ENABLED FileGetImagesReturns)
    /\ [][FileImagesReturned =>
             ReturnsResolvedInOrder /\ dl_phase' = "downloading"]_vars

\* an unresolved identifier stood before a resolved one, the download has
\* begun with the resolved one alone
C11_Witness ==
    /\ strategy = "file"
    /\ run_pc = "downloading"
    /\ Len(image_id_list) = 2
    /\ current_images[1] = NoneValue
    /\ Len(images) = 1
    /\ images[1].index = 2
    /\ requested[1] # <<>>

(***************************************************************************)
(* A whole run: what ends it.                                              *)
(***************************************************************************)
\* C12 as stated: a detail request of the file strategy that ends without a
\* successful response (another status than 200 after the attempts, a 200
\* without a usable `value`, a GET that raises) makes get_detail_image
\* return None, never raise, and the bulk resolver goes on to its next round
\* or its return.
C12_AsStated ==
    strategy = "file" =>
        /\ \A k \in DOMAIN task_pc : task_pc[k] # "raised"
        /\ br_pc # "raised"

\* the run has ended with the exception of a URL that holds no identifiers:
\* a line of the file, while the listing is read; the page URL of an item
\* of the API, in the task of that item
MalformedEndedRun ==
    /\ run_pc = "crashed"
    /\ \/ /\ strategy = "file"
          /\ listing.exists
          /\ br_pc = "idle"
       \/ /\ strategy = "api"
          /\ br_pc = "raised"
          /\ \E k \in DOMAIN task_pc :
                 task_pc[k] = "raised" /\ ~PatternMatches(images[k].page_url)

\* C13 as stated: a source URL without a (setId, itemId) pair fails only its
\* own item; the run goes on to completion with the others, in both
\* strategies.
C13_AsStated == ~MalformedEndedRun

\* the listing step has succeeded
ListingSucceeded == run_pc # "listing" /\ br_pc # "idle"

\* C14 as stated: when the listing step succeeds the run is never ended by
\* an error of one item (detail resolution, transport exceptions included,
\* download, metadata embedding); it reaches Done.  The URLs without
\* identifiers of C13 are left aside here.
C14_AsStated == ListingSucceeded /\ ~MalformedEndedRun => run_pc # "crashed"

\* the listing call fails
ListingFailed ==
    IF strategy = "file"
    THEN ~listing.exists
    ELSE listing.status # 200

\* the listing call answers and names no item
ListingEmpty ==
    IF strategy = "file"
    THEN listing.exists /\ CreateLines(listing.lines) = <<>>
    ELSE listing.status = 200 /\ ItemsOf(listing.collections) = <<>>

\* C15 as stated: when the listing call fails or the listing produces zero
\* items the run is aborted: no detail request, no download request and no
\* packaging step is ever performed, in both strategies.
C15_AsStated ==
    ListingFailed \/ ListingEmpty =>
        /\ run_pc \notin {"downloading", "done"}
        /\ dl_phase = "idle"
        /\ archive = {}
        /\ \A k \in DOMAIN task_pc : task_pc[k] = "created"

(***************************************************************************)
(* A whole run: the order of its phases.                                   *)
(***************************************************************************)
PhaseRank(pc) ==
    CASE pc = "listing"     -> 1
      [] pc = "resolving"   -> 2
      [] pc = "downloading" -> 3
      [] pc = "done"        -> 4
      [] OTHER              -> 5

\* a download request has been sent
DownloadRequested == \E i \in DOMAIN requested : requested[i] # <<>>

\* the downloads wait for the detail tasks, the zip file for the downloads
PhasesApart ==
    /\ dl_phase # "idle" => AllFinished(task_pc) /\ permits = SemaphoreCapacity
    /\ DownloadRequested => dl_phase # "idle" /\ run_pc \notin {"listing", "resolving"}
    /\ dl_phase = "gathered" \/ run_pc = "done" \/ archive # {} =>
           \A i \in DOMAIN dl_pc : dl_pc[i] = "done"
    /\ archive # {} => dl_phase = "gathered"

\* the run moves from a phase to the next one, or ends with an exception
\* before the download; no detail task runs once the download has begun
PhasesForward ==
    /\ run_pc' # run_pc =>
           \/ PhaseRank(run_pc') = PhaseRank(run_pc) + 1 /\ run_pc' # "crashed"
           \/ run_pc' = "crashed" /\ run_pc \in {"listing", "resolving"}
           \/ run_pc' = "crashed" /\ run_pc = "downloading" /\ dl_phase = "gathered"
    /\ run_pc \in {"downloading", "done"} =>
           task_pc' = task_pc /\ permits' = permits /\ current_images' = current_images

\* C16: the phases of a run are strictly ordered: no download request is
\* sent before every detail task has finished, and nothing is written to the
\* archive, nor the successful count computed, before the download task of
\* every item has finished.
C16_PhasesAreOrdered == []PhasesApart /\ [][PhasesForward]_vars

\* two items whose detail tasks both ran, one downloaded and packed
C16_Witness ==
    /\ run_pc = "done"
    /\ Len(images) = 2
    /\ Len(task_pc) = 2
    /\ archive # {}
    /\ successful_image_count = 1
    /\ \A i \in DOMAIN requested : requested[i] # <<>>

(***************************************************************************)
(* The semaphore of the detail requests.                                   *)
(***************************************************************************)
\* C17: at every instant, over all rounds and in both strategies, the
\* number of detail requests in flight is at most the capacity of the
\* semaphore (250): every request holds one permit from before its GET is
\* sent until its answer is handled.
C17_InFlightWithinCapacity ==
    /\ crowd_in_flight <= SemaphoreCapacity
    /\ permits = SemaphoreCapacity - crowd_in_flight
    /\ permits >= 0

\* every permit is taken and a task still waits for one
C17_Witness ==
    /\ crowd_in_flight = SemaphoreCapacity
    /\ permits = 0
    /\ crowd_created > 0
    /\ ~ENABLED CrowdAcquires

(***************************************************************************)
(* The candidate lists the strategies build.                               *)
(***************************************************************************)
Ascending(image_urls) ==
    \A j, k \in DOMAIN image_urls : j < k => image_urls[j][1] <= image_urls[k][1]

\* the position of an entry in a list that holds it
PositionIn(image_urls, entry) ==
    CHOOSE k \in DOMAIN image_urls : image_urls[k] = entry

\* the entries of `before` are in `after`, in the order they had, and an
\* entry that came later stands behind the earlier ones of its priority
StableOver(before, after) ==
    /\ \A k \in DOMAIN before : \E m \in DOMAIN after : after[m] = before[k]
    /\ \A j, k \in DOMAIN before :
           j < k => PositionIn(after, before[j]) < PositionIn(after, before[k])
    /\ \A m \in DOMAIN after :
           (\A k \in DOMAIN before : before[k] # after[m]) =>
               \A k \in DOMAIN before :
                   before[k][1] = after[m][1] => PositionIn(after, before[k]) < m

\* the priorities of the API strategy: 1 the media URL of the listing, 3 its
\* declared thumbnail, 2 and 4 the content and thumbnail URL of the detail
PrioritiesByKind(k) ==
    LET item == ItemsOf(listing.collections)[k].item
    IN  \A m \in DOMAIN images[k].image_urls :
            LET entry == images[k].image_urls[m]
            IN  CASE entry[1] = 1 -> entry[2] = item.MediaUrl
                  [] entry[1] = 2 -> entry[2] \in DetailContentUrls
                  [] entry[1] = 3 -> entry[2] = item.thumbnailUrl
                  [] entry[1] = 4 -> entry[2] = "u_thumb"
                  [] OTHER -> FALSE

SortedLists ==
    \A k \in DOMAIN images :
        /\ Ascending(images[k].image_urls)
        /\ strategy = "api" => PrioritiesByKind(k)

ListsStayStable ==
    \A k \in DOMAIN images :
        k \in DOMAIN images' /\ images'[k].index = images[k].index =>
            StableOver(images[k].image_urls, images'[k].image_urls)

\* C18: after detail resolution the candidate list of an item is in
\* ascending order of priority (media URL 1, detail content URL 2, declared
\* thumbnail 3, detail thumbnail 4), and the sort moves no entry before an
\* earlier entry of its own priority.
C18_SortedByPriority == []SortedLists /\ [][ListsStayStable]_vars

\* the detail answer added a content URL and a thumbnail behind a declared
\* thumbnail, and the download has begun with the four in priority order
C18_Witness ==
    /\ strategy = "api"
    /\ run_pc = "downloading"
    /\ \E k \in DOMAIN images :
           /\ Len(images[k].image_urls) = 4
           /\ \A m \in 1..4 : images[k].image_urls[m][1] = m
           /\ requested[k] # <<>>

NoUrlTwice(image_urls) ==
    \A j, k \in DOMAIN image_urls : j # k => image_urls[j][2] # image_urls[k][2]

\* C19 as stated: the candidate list of an item that enters the download
\* holds no URL twice, even when one URL is offered at two priorities, in
\* both strategies.
C19_AsStated ==
    run_pc \in {"downloading", "done"} =>
        \A k \in DOMAIN images : NoUrlTwice(images[k].image_urls)

\* C20: the candidate list of an item that enters the download is never
\* empty, in either strategy and whatever the detail service answered.
C20_NeverEmpty ==
    \A k \in DOMAIN images : Len(images[k].image_urls) >= 1

\* an item of the API without declared thumbnail whose detail request gave
\* no record is downloaded from its one candidate
C20_Witness ==
    /\ strategy = "api"
    /\ run_pc = "downloading"
    /\ \E k \in DOMAIN images :
           /\ Len(images[k].image_urls) = 1
           /\ requested[k] = <<CandidateUrl(images[k], 1)>>

(***************************************************************************)
(* The items handed to the download.                                       *)
(***************************************************************************)
\* the strategy has returned its list to run
HandedToDownload == run_pc \in {"downloading", "done"} \/ dl_phase # "idle"

\* C21: index values are unique within a run: no two items of the list
\* handed to the download carry the same index, in the API strategy (a
\* counter running over the accepted items of all collections) and in the
\* file strategy (the position in the identifier list plus one, kept over
\* the rounds and after unresolved items are dropped).
C21_IndexIsUnique ==
    HandedToDownload =>
        \A i, j \in DOMAIN images :
            images[i].index = images[j].index => i = j

\* two accepted items of an API listing have reached the download
C21_Witness ==
    /\ strategy = "api"
    /\ HandedToDownload
    /\ Len(images) = 2
    /\ images[1].index = 1
    /\ images[2].index = 2

(***************************************************************************)
(* The zip file.                                                           *)
(***************************************************************************)
\* the zip file has been written
Packed == dl_phase = "gathered" /\ run_pc \in {"done", "crashed"}

\* C22: the entries written to the zip file are exactly the items whose
\* outcome is Success after all downloads finished, each under the name of
\* its collection; successful_image_count is their number, and it is at
\* most total_image_count, the number of items the strategy returned.
C22_ArchiveIsTheSuccesses ==
    Packed =>
        /\ {entry.item : entry \in archive} =
               {i \in Items : Outcome(i) = "Success"}
        /\ \A entry \in archive :
               /\ entry.arcname[1] = images[entry.item].collection_name
               /\ entry.arcname[2] = images[entry.item].file_name
               /\ entry.arcname[2] # None
        /\ \A e1, e2 \in archive : e1.item = e2.item => e1 = e2
        /\ successful_image_count = Cardinality(archive)
        /\ successful_image_count <= total_image_count
        /\ total_image_count = Len(images)

\* of the items of two collections one was saved and packed, the other not
C22_Witness ==
    /\ Packed
    /\ Len(images) = 2
    /\ images[1].collection_name = "A"
    /\ images[2].collection_name = "B"
    /\ ~images[1].is_success
    /\ images[1].status_code = 200
    /\ \E entry \in archive : entry.item = 2 /\ entry.arcname[1] = "B"
    /\ successful_image_count = 1

(***************************************************************************)
(* The deletion of the collections.                                        *)
(***************************************************************************)
\* the deletion is enabled and reached: a run of the API strategy, the
\* toggle set
DeletionEnabled == strategy = "api" /\ delete_toggle

\* the mode names one of the three strategies
ModeIsKnown == delete_mode \in {"safest", "safeish", "dangerous"}

\* C23: with deletion enabled, a mode that is none of 'safest', 'safeish',
\* 'dangerous' results in no deletion request at all and in a logged
\* warning; the run does not crash and still finishes the zip file.
C23_UnknownModeIsNoOp ==
    (DeletionEnabled /\ ~ModeIsKnown) =>
        /\ deletion_requests = <<>>
        /\ run_pc # "crashed"
        /\ dl_phase # "crashed"
        /\ run_pc = "done" =>
               /\ deletion_warnings = <<"no_valid_method">>
               /\ archive = ZipEntries(images)
        /\ (run_pc = "downloading" /\ dl_phase = "gathered") => ENABLED ZipImages

\* a run with the mode 'never' has packed a picture and warned
C23_Witness ==
    /\ DeletionEnabled
    /\ delete_mode = "never"
    /\ run_pc = "done"
    /\ archive # {}
    /\ deletion_warnings = <<"no_valid_method">>
    /\ deletion_requests = <<>>

\* the ids some deletion request has named
SubmittedIds == UNION {deletion_requests[r] : r \in DOMAIN deletion_requests}

\* the items of the collection an image names as its own
ItemsOfCollectionId(collection_id) ==
    {i \in DOMAIN images : images[i].collection_id = collection_id}

\* the items gathered from a collection of the listing
ItemsOfListed(collection) ==
    {i \in DOMAIN images : images[i].collection_name = collection.title}

\* the collections of the listing
ListedCollections ==
    {listing.collections[c] : c \in DOMAIN listing.collections}

FullySucceeded(image) == image.status_code = 200 /\ image.is_success

EndedWith200Or404(image) == image.status_code \in {200, 404}

\* what a mode asks of every item of a collection it submits
AskedBy(mode, image) ==
    IF mode = "safest" THEN FullySucceeded(image) ELSE EndedWith200Or404(image)

\* every collection a request names, by the id of its items or by the id
\* of the listing, has only items of which the mode's condition holds
SubmittedOnlyIf(mode) ==
    /\ \A id \in SubmittedIds :
           \A i \in ItemsOfCollectionId(id) : AskedBy(mode, images[i])
    /\ \A collection \in ListedCollections :
           collection.collectionId \in SubmittedIds =>
               \A i \in ItemsOfListed(collection) : AskedBy(mode, images[i])

\* C24: under the 'safest' mode a collection is submitted for deletion only
\* if every item of that collection fully succeeded (status 200 and
\* is_success); a collection with an item that did not succeed is never in
\* the deletion request.
C24_SafestOnlyIfAllSucceeded ==
    (DeletionEnabled /\ delete_mode = "safest") => SubmittedOnlyIf("safest")

\* a request was sent under 'safest'
C24_Witness ==
    /\ DeletionEnabled
    /\ delete_mode = "safest"
    /\ Len(deletion_requests) = 1
    /\ Len(images) = 1
    /\ images[1].is_success

\* C25: under the 'safeish' mode a collection is submitted for deletion
\* only if every item of that collection ended with status 200 or 404; a
\* collection with an item of any other final status, or of no status
\* because its download raised before any response, is never in the
\* deletion request.
C25_SafeishOnlyIf200Or404 ==
    (DeletionEnabled /\ delete_mode = "safeish") => SubmittedOnlyIf("safeish")

\* a request was sent under 'safeish' for an item that ended with 404
C25_Witness ==
    /\ DeletionEnabled
    /\ delete_mode = "safeish"
    /\ Len(deletion_requests) = 1
    /\ Len(images) = 1
    /\ images[1].status_code = 404
    /\ ~images[1].is_success

\* the ids of the collections of the listing that own an item of the run
OwningCollectionIds ==
    {collection.collectionId :
        collection \in {c \in ListedCollections : ItemsOfListed(c) # {}}}

\* C26 as stated: under the 'dangerous' mode every distinct collection that
\* owns at least one item of the finished item set is submitted for
\* deletion in a single request, whatever the outcome of any item; when the
\* item set is empty no deletion request is sent.
C26_AsStated ==
    (DeletionEnabled /\ delete_mode = "dangerous" /\ Packed) =>
        IF images = <<>>
        THEN deletion_requests = <<>>
        ELSE deletion_requests = <<OwningCollectionIds>>

(***************************************************************************)
(* The retry client.                                                       *)
(***************************************************************************)
\* the attempts the senders are said to configure
ClaimedBudget(client) == IF client = "detail" THEN 8 ELSE 4

\* the server answers a status other than 200 to every call of the budget
AlwaysFails == ex_server.fails >= ClaimedBudget(ex_client)

\* C27: the retry client never makes more calls for one request than its
\* attempts: with attempts = k and a transport that always answers a status
\* other than 200, exactly k calls are made and then the last response is
\* handed to the caller (k = 4 for the downloads and the detail calls of
\* the API strategy, 8 for get_detail_image).
C27_CallsWithinBudget ==
    ex_pc # "idle" =>
        /\ ex_calls <= ClaimedBudget(ex_client)
        /\ AlwaysFails =>
               /\ ex_pc # "raised"
               /\ ex_pc = "calling" =>
                      ex_calls < ClaimedBudget(ex_client) /\ ENABLED NextExchange
               /\ ex_pc = "returned" =>
                      /\ ex_calls = ClaimedBudget(ex_client)
                      /\ ex_response = AnswerTo(ex_calls)
                      /\ ex_response.status = 404

\* get_detail_image was handed the 404 of its eighth call
C27_Witness ==
    /\ ex_client = "detail"
    /\ AlwaysFails
    /\ ex_pc = "returned"
    /\ ex_calls = 8
    /\ ex_response.status = 404
    /\ ex_result.kind = "unresolved"

\* the body of a 200 answer is null, lacks 'value' or has a null 'value'
BodyInvalid(response) ==
    response.body.kind \in {"null", "no_value", "value_null"}

\* C28 as stated: should_retry_get_detail_image forces a retry of a 200
\* response exactly when the body is null, lacks 'value' or has a null
\* 'value'; a 200 response with a non-null 'value' is never retried; the
\* retries it forces count against the same attempts as the retries on
\* the status.
C28_AsStated ==
    (ex_client = "detail" /\ ex_calls >= 1 /\ ex_response.status = 200) =>
        /\ ex_calls <= ClaimedBudget(ex_client)
        /\ ex_calls < ClaimedBudget(ex_client) =>
               (ex_pc = "calling" <=> BodyInvalid(ex_response))

\* the first record whose imageId is the decoded id, else the first record
FirstMatchOrFirst(value, image_id) ==
    LET matches == {k \in DOMAIN value : value[k].imageId = Unquote(image_id)}
    IN  IF matches # {}
        THEN value[CHOOSE k \in matches : \A m \in matches : k <= m]
        ELSE value[1]

\* C29 as stated: from a 200 response with a 'value' array get_detail_image
\* returns the first record whose imageId equals the URL-decoded image id,
\* and the first record of the array when none matches; for every non-null
\* array, the empty one included, it returns a record or nothing and does
\* not raise.
C29_AsStated ==
    (/\ ex_client = "detail"
     /\ ex_pc = "returned"
     /\ ex_response.status = 200
     /\ ex_response.body.kind = "array") =>
        /\ ex_result.kind \in {"record", "unresolved"}
        /\ ex_result.kind = "record" =>
               ex_result.record = FirstMatchOrFirst(ex_response.body.value, ex_image_id)

(***************************************************************************)
(* The creation date of an item.                                           *)
(***************************************************************************)
\* the date is one of the three sources, written in UTC
WrittenInUtc(creation_date) ==
    creation_date \in {"published@utc", "modified@utc", "today@utc"}

\* the creation date of item i has been set
CreationDateSet(i) ==
    IF strategy = "file"
    THEN run_pc \in {"downloading", "done"}
    ELSE i \in DOMAIN task_pc /\ task_pc[i] = "done"

\* C30 as stated: the creation date of an item is taken from the
\* publication date of the detail service when the detail response carries
\* a 'value', else from the last-modified value of the source strategy,
\* else (detail request not 200) from the local current time, and in all
\* three cases the stored value follows one time zone convention, UTC.
C30_AsStated ==
    \A i \in DOMAIN images :
        CreationDateSet(i) => WrittenInUtc(images[i].creation_date)

(***************************************************************************)
(* C34: during the download phase the attempts of an item only grow, by    *)
(* exactly one in a step that changes them, and never exceed the number of *)
(* its candidate URLs; a Success item has attempts equal to the 1-based    *)
(* position of the candidate that succeeded and status code 200.           *)
(***************************************************************************)
AttemptsStep ==
    \A i \in Items :
        \/ images'[i].attempts = images[i].attempts
        \/ images'[i].attempts = images[i].attempts + 1

AttemptsWithinCandidates ==
    \A i \in Items :
        /\ images[i].attempts <= Len(images[i].image_urls)
        /\ images[i].is_success =>
               /\ images[i].attempts = dl_pos[i]
               /\ images[i].used_image_url = CandidateUrl(images[i], images[i].attempts)
               /\ images[i].status_code = 200

C34_AttemptsGrowByOne == []AttemptsWithinCandidates /\ [][AttemptsStep]_vars

\* the third candidate succeeded after two rejected ones
C34_Witness ==
    \E i \in Items :
        /\ images[i].is_success
        /\ images[i].attempts = 3
        /\ dl_pos[i] = 3
        /\ images[i].status_code = 200

(***************************************************************************)
(* C35, as stated: when the walk of an item has ended, used_image_url and  *)
(* file_name are set only if the item is Success; an item whose decoding   *)
(* or metadata embedding raised has neither.                               *)
(***************************************************************************)
C35_AsStated ==
    \A i \in Items :
        (dl_pc[i] = "done" /\ ~images[i].is_success) =>
            /\ images[i].used_image_url = None
            /\ images[i].file_name = None

(***************************************************************************)
(* C33: when every candidate of an item has been answered and rejected,    *)
(* the status code and the reason of the item are those of the answer to   *)
(* its last candidate, the item is not successful, and the statistics, if  *)
(* written, list it at its position as not successful with that reason.    *)
(***************************************************************************)
\* the answer to `url` arrives and the test of line 95 rejects it
Rejected(url) ==
    /\ ~GetRaises(url)
    /\ ~ResponseAccepted(ResponseStatus(url), ResponseContentType(url))

Exhausted(i) ==
    /\ dl_pc[i] = "done"
    /\ images[i].image_urls # <<>>
    /\ \A k \in DOMAIN images[i].image_urls : Rejected(CandidateUrl(images[i], k))

LastCandidate(i) == CandidateUrl(images[i], Len(images[i].image_urls))

C33_LastAnswerIsKept ==
    \A i \in Items :
        Exhausted(i) =>
            /\ images[i].status_code = ResponseStatus(LastCandidate(i))
            /\ images[i].reason = ResponseReason(LastCandidate(i))
            /\ ~images[i].is_success
            /\ statistics # <<>> =>
                   /\ Len(statistics[1]) = Len(images)
                   /\ statistics[1][i].index = images[i].index
                   /\ ~statistics[1][i].is_success
                   /\ statistics[1][i].reason = ResponseReason(LastCandidate(i))

\* a 404 then a 500: the item is listed with the reason of the 500, next to
\* a successful one
C33_Witness ==
    /\ statistics # <<>>
    /\ \E i, j \in Items :
           /\ Exhausted(i)
           /\ Len(images[i].image_urls) = 2
           /\ CandidateUrl(images[i], 1) = "u_404"
           /\ images[i].status_code = 500
           /\ statistics[1][i].reason = ResponseReason("u_500")
           /\ images[j].is_success

(***************************************************************************)
(* C36: every item of the list handed to the download has a creation date, *)
(* in both strategies and whatever the detail request of the item was      *)
(* answered: 200 with a value, 200 without one, or another status.         *)
(***************************************************************************)
C36_CreationDateIsSet ==
    HandedToDownload =>
        \A i \in DOMAIN images : images[i].creation_date # None

\* an item of the API strategy whose detail request was not answered 200
\* has been saved
C36_Witness ==
    /\ strategy = "api"
    /\ \E i \in Items :
           /\ images[i].creation_date = CreationDateNot200
           /\ images[i].is_success

(***************************************************************************)
(* C37: every detail task returns the permit it acquired, whether it ends  *)
(* resolved, unresolved or by an exception: the free permits are the       *)
(* capacity less the tasks in flight, so whenever no detail request is in  *)
(* flight, between two rounds and at the end of the resolution, the free   *)
(* permits equal the capacity of the semaphore.                            *)
(***************************************************************************)
InFlight == {k \in DOMAIN task_pc : task_pc[k] = "in_flight"}

C37_PermitsAreReturned ==
    /\ permits = SemaphoreCapacity - Cardinality(InFlight)
    /\ InFlight = {} => permits = SemaphoreCapacity

\* a second round starts with every permit free, after a round that left
\* one identifier resolved and one unresolved
C37_Witness ==
    /\ strategy = "file"
    /\ br_pc = "gathering"
    /\ attempts_made = 1
    /\ \A k \in DOMAIN task_pc : task_pc[k] = "created"
    /\ \E j, k \in DOMAIN current_images :
           current_images[j] = NoneValue /\ current_images[k] # NoneValue
    /\ permits = SemaphoreCapacity

(***************************************************************************)
(* C38: in the API strategy a failed detail lookup removes no item: the    *)
(* list get_images returns has the length and the order of the list the    *)
(* listing step produced, and an item whose detail request was not         *)
(* answered 200 keeps the candidate URLs of the listing and gets its       *)
(* download task.                                                          *)
(***************************************************************************)
\* the detail request of the item was answered with a status other than 200
DetailFailed(image) == image.creation_date = CreationDateNot200

C38_FailedLookupKeepsItem ==
    (strategy = "api" /\ HandedToDownload) =>
        LET gathered == GatheredImageData(listing.collections)
        IN  /\ Len(images) = Len(gathered)
            /\ total_image_count = Len(gathered)
            /\ DOMAIN dl_pc = DOMAIN gathered
            /\ \A k \in DOMAIN gathered :
                   /\ images[k].index = gathered[k].index
                   /\ images[k].page_url = gathered[k].page_url
                   /\ DetailFailed(images[k]) =>
                          images[k].image_urls = gathered[k].image_urls

\* of two items the first failed its lookup and was downloaded all the
\* same, the second got the URLs of its detail record
C38_Witness ==
    /\ strategy = "api"
    /\ run_pc = "done"
    /\ Len(images) = 2
    /\ DetailFailed(images[1])
    /\ requested[1] # <<>>
    /\ ~DetailFailed(images[2])
    /\ images[2].image_urls # GatheredImageData(listing.collections)[2].image_urls

(***************************************************************************)
(* C39: the deletion of the collections is attempted at most once in a     *)
(* run, only when the source method is 'api' and the toggle is on, and     *)
(* only when the download task of every item has finished and the          *)
(* successful items are written to the archive; a run that ended in the    *)
(* listing, or a run of the file strategy, never attempts it.              *)
(***************************************************************************)
\* __delete_collection leaves a request, a warning or an exception
DeletionStep ==
    \/ deletion_requests' # deletion_requests
    \/ deletion_warnings' # deletion_warnings
    \/ run_pc = "downloading" /\ run_pc' = "crashed"

DeletionAttempted ==
    \/ deletion_requests # <<>>
    \/ deletion_warnings # <<>>
    \/ run_pc = "crashed" /\ dl_phase = "gathered"

DeletionInItsPlace ==
    DeletionStep =>
        /\ ~DeletionAttempted
        /\ strategy = "api"
        /\ delete_toggle
        /\ dl_phase = "gathered"
        /\ \A i \in DOMAIN dl_pc : dl_pc[i] = "done"
        /\ archive' = ZipEntries(images)
        /\ {entry.item : entry \in archive'} = {i \in Items : images[i].is_success}
        /\ Len(deletion_requests') + Len(deletion_warnings') <= 1

NoDeletionElsewhere ==
    DeletionAttempted =>
        /\ strategy = "api"
        /\ delete_toggle
        /\ run_pc \in {"done", "crashed"}
        /\ dl_phase = "gathered"
        /\ Len(deletion_requests) + Len(deletion_warnings) <= 1

C39_WitnessNoAttempt ==
    /\ delete_toggle
    /\ ~DeletionAttempted
    /\ \/ strategy = "file" /\ run_pc = "done" /\ archive # {}
       \/ run_pc = "crashed" /\ dl_phase = "idle" /\ task_pc = <<>>

(***************************************************************************)
(* C31: across the merge rounds the results list is only ever replaced by  *)
(* a newly built list: a merge leaves the list of the previous rounds, the *)
(* list of the new round and the identifier list as they were, the         *)
(* identifier list never changes, and no step of a resolver task changes   *)
(* the merged list.                                                        *)
(***************************************************************************)
\* a step of a task, or of the end of the run: no round completes in it
NoRoundCompletes == attempts_made' = attempts_made

ListsOnlyReplaced ==
    /\ image_id_list' = image_id_list
    /\ NoRoundCompletes => current_images' = current_images
    /\ ~NoRoundCompletes =>
           /\ current_images' = Merged
           /\ task_result' # task_result => task_result' = [k \in DOMAIN task_result |-> NoneValue]

StartedInRound == {k \in DOMAIN task_pc : task_pc[k] \in {"in_flight", "done", "raised"}}

CallsCounted ==
    /\ br_pc = "gathering" =>
           detail_calls = Len(image_id_list) * attempts_made + Cardinality(StartedInRound)
    /\ br_pc = "returned" =>
           detail_calls = Len(image_id_list) * attempts_made

RedundantDropped ==
    ~NoRoundCompletes =>
        \A k \in DOMAIN current_images :
            current_images[k] # NoneValue =>
                /\ task_pc[k] = "done"
                /\ current_images'[k] = current_images[k]

C32_EveryRoundAsksForAll == []CallsCounted /\ [][RedundantDropped]_vars

\* two identifiers, two rounds, four requests; the first position was
\* resolved by the first round and answered again, otherwise, in the second
C32_Witness ==
    /\ br_pc = "returned"
    /\ Len(image_id_list) = 2
    /\ attempts_made = 2
    /\ detail_calls = 4
    /\ task_result[1] # NoneValue
    /\ current_images[1] # task_result[1]
    /\ current_images[2] = task_result[2]

C40_WitnessDangerous ==
    /\ delete_mode = "dangerous"
    /\ Len(images) = DeletionItemLimit
    /\ deletion_requests # <<>>

====
